---- MODULE Spec2Model ----
(***************************************************************************)
(* Model of the dual-target (EVM / zkSync) parts of foundry-zksync:        *)
(*   - crates/cheatcodes/src/test.rs : the zkRegisterContract and          *)
(*     breakpoint cheatcodes acting on the Cheatcodes state;               *)
(*   - crates/common/src/compile.rs  : SizeReport, deployed_contract_size, *)
(*     and ProjectCompiler::compile / zksync_compile with their output     *)
(*     handlers (missing-library detection, size report), and              *)
(*     ContractSources with insert, get_sources and entries.               *)
(* Each part has its own specification over the shared variables:          *)
(*   SpecRegistry, SpecBreakpoint, SpecSizeReport, SpecContractSize,       *)
(*   SpecCompile, SpecMissing, SpecRounds, SpecSources.                    *)
(***************************************************************************)
EXTENDS Integers, Sequences, FiniteSets, TLC

VARIABLES
    dual_compiled_contracts, \* Cheatcodes::dual_compiled_contracts (a Vec)
    breakpoints,             \* Cheatcodes::breakpoints (char -> (Address, pc))
    pc,                      \* Cheatcodes::pc
    use_zk_vm,               \* Cheatcodes::use_zk_vm: the zkSync VM is the active target
    deployed,                \* the contracts created so far, each with the VM it was created in
    size_report,             \* a SizeReport { contracts, zksync }
    artifact,                \* the artifact handed to deployed_contract_size
    compiler,                \* Option<ProjectCompiler>: None once a compile consumed it
    output,                  \* what the compiler closure f() returns for the project
    missing_libraries_cache, \* the persisted missing-library cache of the project root
    sources,                 \* a ContractSources { sources_by_id, artifacts_by_name }
    last                     \* history: the last call, its arguments and its Result

gateVars == <<use_zk_vm, deployed>>
cheatVars == <<dual_compiled_contracts, breakpoints, pc, gateVars>>
buildVars == <<compiler, output, missing_libraries_cache>>
storeVars == <<sources>>
vars == <<dual_compiled_contracts, breakpoints, pc, use_zk_vm, deployed, size_report, artifact,
          compiler, output, missing_libraries_cache, sources, last>>

(***************************************************************************)
(* Bounds of the model.                                                    *)
(***************************************************************************)
MaxRegistry == 2    \* new registrations stop at this registry length
MaxLabelLen == 2    \* breakpoint labels have 0..MaxLabelLen characters
MaxPc == 1          \* program counters are drawn from 0..MaxPc
MaxHexLen == 4      \* unlinked bytecode texts have 0..MaxHexLen characters
MaxBytes == 2       \* linked bytecode has 0..MaxBytes bytes
MaxLinkLen == 2     \* bytecode handed to the linker has 0..MaxLinkLen items
MaxHostRegistry == 1 \* a run of all host operations registers 0..MaxHostRegistry contracts

\* Option<T>: None, Some(x)
None == << >>
Some(x) == <<x>>

(***************************************************************************)
(* zkRegisterContract (test.rs 26-60)                                      *)
(***************************************************************************)
Names == {"Counter", "Other"}
\* the 32-byte bytecode hashes a call can carry
Hashes == {1, 2}
\* (evmDeployedBytecode, evmBytecode, zkDeployedBytecode) of a call
Bytecodes ==
    { [evmDeployedBytecode |-> <<96, 128>>, evmBytecode |-> <<96, 128, 0>>,
       zkDeployedBytecode |-> <<0, 1>>],
      [evmDeployedBytecode |-> <<96, 64>>, evmBytecode |-> <<96, 64, 0>>,
       zkDeployedBytecode |-> <<0, 2>>] }

\* the DualCompiledContract built from the call's arguments (test.rs 37-46)
new_contract(name, evmBytecodeHash, zkBytecodeHash, code) ==
    [ name |-> name,
      zk_bytecode_hash |-> zkBytecodeHash,
      zk_deployed_bytecode |-> code.zkDeployedBytecode,
      zk_factory_deps |-> << >>,
      evm_bytecode_hash |-> evmBytecodeHash,
      evm_deployed_bytecode |-> code.evmDeployedBytecode,
      evm_bytecode |-> code.evmBytecode ]

\* mutant: an entry matches as soon as its evm hash matches
find_existing_evm_hash_only(contracts, new) ==
    LET hits == { i \in 1..Len(contracts) :
                    contracts[i].evm_bytecode_hash = new.evm_bytecode_hash }
    IN IF hits = {} THEN 0 ELSE CHOOSE i \in hits : \A j \in hits : i <= j

\* iter().find(..) of test.rs 48-51: index of the first entry with both hashes
\* equal to the new contract's, 0 when there is none
find_existing(contracts, new) ==
    LET hits == { i \in 1..Len(contracts) :
                    /\ contracts[i].evm_bytecode_hash = new.evm_bytecode_hash
                    /\ contracts[i].zk_bytecode_hash = new.zk_bytecode_hash }
    IN IF hits = {} THEN 0 ELSE CHOOSE i \in hits : \A j \in hits : i <= j

\* mutant: the duplicate check is dropped, every call pushes
zkRegisterContract_push_always(contracts, new) ==
    [ contracts |-> Append(contracts, new), ok |-> TRUE, warn |-> None ]

\* mutant: a duplicate registration overwrites the stored entry
zkRegisterContract_overwrite(contracts, new) ==
    IF find_existing(contracts, new) # 0
    THEN [ contracts |-> [contracts EXCEPT ![find_existing(contracts, new)] = new],
           ok |-> TRUE, warn |-> Some(contracts[find_existing(contracts, new)].name) ]
    ELSE [ contracts |-> Append(contracts, new), ok |-> TRUE, warn |-> None ]

\* mutant: a new entry is inserted at the front
zkRegisterContract_prepend(contracts, new) ==
    IF find_existing(contracts, new) # 0
    THEN [ contracts |-> contracts, ok |-> TRUE,
           warn |-> Some(contracts[find_existing(contracts, new)].name) ]
    ELSE [ contracts |-> <<new>> \o contracts, ok |-> TRUE, warn |-> None ]

\* mutant: a duplicate registration is refused with an error
zkRegisterContract_duplicate_fails(contracts, new) ==
    IF find_existing(contracts, new) # 0
    THEN [ contracts |-> contracts, ok |-> FALSE,
           warn |-> Some(contracts[find_existing(contracts, new)].name) ]
    ELSE [ contracts |-> Append(contracts, new), ok |-> TRUE, warn |-> None ]

\* zkRegisterContractCall::apply_stateful (test.rs 48-58): the new registry,
\* whether the Result is Ok, and the name the warn! line logs (None when no
\* warning is logged)
zkRegisterContractCall_apply_stateful(contracts, new) ==
    IF find_existing(contracts, new) # 0
    THEN [ contracts |-> contracts, ok |-> TRUE,
           warn |-> Some(contracts[find_existing(contracts, new)].name) ]
    ELSE [ contracts |-> Append(contracts, new), ok |-> TRUE, warn |-> None ]

zkRegisterContract ==
    \E name \in Names, evmHash \in Hashes, zkHash \in Hashes, code \in Bytecodes :
        LET new == new_contract(name, evmHash, zkHash, code)
            r == zkRegisterContractCall_apply_stateful(dual_compiled_contracts, new)
        IN /\ \/ Len(dual_compiled_contracts) < MaxRegistry
              \/ find_existing(dual_compiled_contracts, new) # 0
           /\ dual_compiled_contracts' = r.contracts
           /\ last' = [ op |-> "zkRegisterContract", new |-> new, ok |-> r.ok,
                        warn |-> r.warn ]
           /\ UNCHANGED <<breakpoints, pc, gateVars, size_report, artifact, buildVars, storeVars>>

(***************************************************************************)
(* breakpoint (test.rs 73-85, 131-146)                                     *)
(***************************************************************************)
\* code points a label is made of: "U+00E9" is a two-byte alphabetic code
\* point, "1" is not alphabetic
Chars == {"a", "U+00E9", "1"}
Callers == {1, 2}
Pcs == 0..MaxPc

\* char::is_alphabetic (test.rs 137)
is_alphabetic(c) == c \in {"a", "U+00E9"}

\* labels: strings of 0..MaxLabelLen code points
Labels == UNION { [1..n -> Chars] : n \in 0..MaxLabelLen }

\* HashMap::insert (test.rs 140)
insert(map, k, v) == [ x \in DOMAIN map \cup {k} |-> IF x = k THEN v ELSE map[x] ]

\* HashMap::remove (test.rs 142)
remove(map, k) == [ x \in DOMAIN map \ {k} |-> map[x] ]

\* HashMap::get, the query of a label
get(map, k) == IF k \in DOMAIN map THEN Some(map[k]) ELSE None

ErrLength == "breakpoints must be exactly one character"
ErrAlpha == "only alphabetic characters are accepted as breakpoints"

\* mutant: only the first character is looked at, the rest of the label is ignored
breakpoint_first_char_only(map, pcv, caller, s, add) ==
    IF Len(s) = 0
    THEN [ breakpoints |-> map, ok |-> FALSE, err |-> ErrLength ]
    ELSE IF ~ is_alphabetic(s[1])
    THEN [ breakpoints |-> map, ok |-> FALSE, err |-> ErrAlpha ]
    ELSE IF add
    THEN [ breakpoints |-> insert(map, s[1], <<caller, pcv>>), ok |-> TRUE, err |-> "" ]
    ELSE [ breakpoints |-> remove(map, s[1]), ok |-> TRUE, err |-> "" ]

\* mutant: a set keeps the location the label already has (entry().or_insert)
breakpoint_keep_first(map, pcv, caller, s, add) ==
    IF Len(s) # 1
    THEN [ breakpoints |-> map, ok |-> FALSE, err |-> ErrLength ]
    ELSE IF ~ is_alphabetic(s[1])
    THEN [ breakpoints |-> map, ok |-> FALSE, err |-> ErrAlpha ]
    ELSE IF add
    THEN [ breakpoints |-> IF s[1] \in DOMAIN map THEN map
                           ELSE insert(map, s[1], <<caller, pcv>>),
           ok |-> TRUE, err |-> "" ]
    ELSE [ breakpoints |-> remove(map, s[1]), ok |-> TRUE, err |-> "" ]

\* mutant: clearing a label that is not set is an error
breakpoint_clear_absent_fails(map, pcv, caller, s, add) ==
    IF Len(s) # 1
    THEN [ breakpoints |-> map, ok |-> FALSE, err |-> ErrLength ]
    ELSE IF ~ is_alphabetic(s[1])
    THEN [ breakpoints |-> map, ok |-> FALSE, err |-> ErrAlpha ]
    ELSE IF add
    THEN [ breakpoints |-> insert(map, s[1], <<caller, pcv>>), ok |-> TRUE, err |-> "" ]
    ELSE IF s[1] \in DOMAIN map
    THEN [ breakpoints |-> remove(map, s[1]), ok |-> TRUE, err |-> "" ]
    ELSE [ breakpoints |-> map, ok |-> FALSE, err |-> "no such breakpoint" ]

\* mutant: the label of a clear request is validated only when it is removed:
\* a clear with a label that is not one alphabetic character does nothing
\* and succeeds
breakpoint_clear_unvalidated(map, pcv, caller, s, add) ==
    IF ~ add /\ (Len(s) # 1 \/ ~ is_alphabetic(s[1]))
    THEN [ breakpoints |-> map, ok |-> TRUE, err |-> "" ]
    ELSE IF Len(s) # 1
    THEN [ breakpoints |-> map, ok |-> FALSE, err |-> ErrLength ]
    ELSE IF ~ is_alphabetic(s[1])
    THEN [ breakpoints |-> map, ok |-> FALSE, err |-> ErrAlpha ]
    ELSE IF add
    THEN [ breakpoints |-> insert(map, s[1], <<caller, pcv>>), ok |-> TRUE, err |-> "" ]
    ELSE [ breakpoints |-> remove(map, s[1]), ok |-> TRUE, err |-> "" ]

\* fn breakpoint (test.rs 132-146): the new map, whether the Result is Ok and
\* the error message
breakpoint(map, pcv, caller, s, add) ==
    IF Len(s) # 1
    THEN [ breakpoints |-> map, ok |-> FALSE, err |-> ErrLength ]
    ELSE IF ~ is_alphabetic(s[1])
    THEN [ breakpoints |-> map, ok |-> FALSE, err |-> ErrAlpha ]
    ELSE IF add
    THEN [ breakpoints |-> insert(map, s[1], <<caller, pcv>>), ok |-> TRUE, err |-> "" ]
    ELSE [ breakpoints |-> remove(map, s[1]), ok |-> TRUE, err |-> "" ]

\* the call of fn breakpoint by either cheatcode (test.rs 76, 83)
breakpoint_call(caller, s, add) ==
    LET r == breakpoint(breakpoints, pc, caller, s, add)
    IN /\ breakpoints' = r.breakpoints
       /\ last' = [ op |-> "breakpoint", s |-> s, add |-> add, caller |-> caller,
                    pc |-> pc, ok |-> r.ok, err |-> r.err,
                    had |-> Len(s) > 0 /\ s[1] \in DOMAIN breakpoints ]
       /\ UNCHANGED <<dual_compiled_contracts, pc, gateVars, size_report, artifact, buildVars, storeVars>>

\* breakpoint_0Call::apply_stateful (test.rs 73-78): breakpoint(char)
breakpoint_0 ==
    \E caller \in Callers, char \in Labels : breakpoint_call(caller, char, TRUE)

\* breakpoint_1Call::apply_stateful (test.rs 80-85): breakpoint(char, value)
breakpoint_1 ==
    \E caller \in Callers, char \in Labels, value \in BOOLEAN :
        breakpoint_call(caller, char, value)

\* the interpreter moves on: Cheatcodes::pc takes a new value
step ==
    /\ \E p \in Pcs : p # pc /\ pc' = p
    /\ last' = [ op |-> "step" ]
    /\ UNCHANGED <<dual_compiled_contracts, breakpoints, gateVars, size_report, artifact, buildVars, storeVars>>

(***************************************************************************)
(* zkVm (test.rs 12-24)                                                    *)
(***************************************************************************)
\* Cheatcodes::select_zk_vm and Cheatcodes::select_evm: the value of
\* use_zk_vm they leave
select_zk_vm(use) == TRUE
select_evm(use) == FALSE

\* mutant: the flag is ignored and the zkSync VM is selected
zkVmCall_always_zk_vm(use, enable) ==
    [ use_zk_vm |-> select_zk_vm(use), ok |-> TRUE ]

\* zkVmCall::apply_stateful (test.rs 13-23): use_zk_vm after the call and
\* whether the Result is Ok
zkVmCall_apply_stateful(use, enable) ==
    [ use_zk_vm |-> IF enable THEN select_zk_vm(use) ELSE select_evm(use), ok |-> TRUE ]

\* mutant: a switch of the VM starts the run afresh: the breakpoints are gone
zkVm_drops_breakpoints ==
    \E enable \in BOOLEAN :
        LET r == zkVmCall_apply_stateful(use_zk_vm, enable)
        IN /\ use_zk_vm' = r.use_zk_vm
           /\ breakpoints' = << >>
           /\ last' = [ op |-> "zkVm", enable |-> enable, ok |-> r.ok ]
           /\ UNCHANGED <<dual_compiled_contracts, pc, deployed, size_report,
                          artifact, buildVars, storeVars>>

zkVm ==
    \E enable \in BOOLEAN :
        LET r == zkVmCall_apply_stateful(use_zk_vm, enable)
        IN /\ use_zk_vm' = r.use_zk_vm
           /\ last' = [ op |-> "zkVm", enable |-> enable, ok |-> r.ok ]
           /\ UNCHANGED <<dual_compiled_contracts, breakpoints, pc, deployed, size_report,
                          artifact, buildVars, storeVars>>

\* the VM a creation resolves to
active_vm(use) == IF use THEN "zkVM" ELSE "EVM"

\* the test creates a contract: the creation resolves to the active VM
create ==
    \E name \in Names :
        /\ deployed' = deployed \cup { [ name |-> name, vm |-> active_vm(use_zk_vm) ] }
        /\ last' = [ op |-> "create", name |-> name, vm |-> active_vm(use_zk_vm) ]
        /\ UNCHANGED <<dual_compiled_contracts, breakpoints, pc, use_zk_vm, size_report,
                       artifact, buildVars, storeVars>>

\* the test calls a contract it created: the call resolves to the active VM
call ==
    \E d \in deployed :
        /\ last' = [ op |-> "call", name |-> d.name, created_in |-> d.vm,
                     vm |-> active_vm(use_zk_vm) ]
        /\ UNCHANGED <<dual_compiled_contracts, breakpoints, pc, gateVars, size_report,
                       artifact, buildVars, storeVars>>

(***************************************************************************)
(* SizeReport (compile.rs 639-673, 742-749)                                *)
(***************************************************************************)
CONTRACT_SIZE_LIMIT == 24576
ZKSYNC_CONTRACT_SIZE_LIMIT == 450999

\* the contract names of a report, in the order of String's Ord
ReportNameOrder == <<"Counter", "CounterTest", "L1", "L2", "L3", "Lib", "Other", "Test">>
ReportNames == {"Counter", "CounterTest"}
\* contract sizes: none, small, and at and just above either limit
Sizes == { 0, 800, CONTRACT_SIZE_LIMIT, CONTRACT_SIZE_LIMIT + 1,
           ZKSYNC_CONTRACT_SIZE_LIMIT, ZKSYNC_CONTRACT_SIZE_LIMIT + 1 }

\* struct ContractInfo (compile.rs 743-749)
ContractInfo == [ size : Sizes, is_dev_contract : BOOLEAN ]

\* SizeReport { contracts: BTreeMap::new(), zksync } (compile.rs 244, 467)
new_size_report(zksync) == [ contracts |-> << >>, zksync |-> zksync ]

\* struct SizeReport (compile.rs 646-651): every map of names to ContractInfo
SizeReports ==
    { [ contracts |-> c, zksync |-> z ] :
        c \in UNION { [ns -> ContractInfo] : ns \in SUBSET ReportNames },
        z \in BOOLEAN }

\* self.contracts.values() (compile.rs 657): the infos in the order of the
\* BTreeMap's keys
values(contracts) ==
    LET present(n) == n \in DOMAIN contracts
        keys == SelectSeq(ReportNameOrder, present)
    IN [ i \in 1..Len(keys) |-> contracts[keys[i]] ]

\* the loop of max_size (compile.rs 656-662) over the contracts left to visit
RECURSIVE max_size_loop(_, _)
max_size_loop(cs, max) ==
    IF cs = << >> THEN max
    ELSE max_size_loop(Tail(cs),
                       IF ~ Head(cs).is_dev_contract /\ Head(cs).size > max
                       THEN Head(cs).size ELSE max)

\* mutant: the loop forgets the is_dev_contract test
RECURSIVE max_size_loop_counts_dev(_, _)
max_size_loop_counts_dev(cs, max) ==
    IF cs = << >> THEN max
    ELSE max_size_loop_counts_dev(Tail(cs),
                                  IF Head(cs).size > max THEN Head(cs).size ELSE max)

\* mutant: max_size over every contract, dev contracts included
max_size_counts_dev(report) ==
    max_size_loop_counts_dev(values(report.contracts), 0)

\* mutant: a size equal to the limit already exceeds it
exceeds_size_limit_at_limit(report) ==
    IF report.zksync
    THEN max_size_loop(values(report.contracts), 0) >= ZKSYNC_CONTRACT_SIZE_LIMIT
    ELSE max_size_loop(values(report.contracts), 0) >= CONTRACT_SIZE_LIMIT

\* SizeReport::max_size (compile.rs 655-663)
max_size(report) ==
    max_size_loop(values(report.contracts), 0)

\* SizeReport::exceeds_size_limit (compile.rs 666-672)
exceeds_size_limit(report) ==
    IF report.zksync
    THEN max_size(report) > ZKSYNC_CONTRACT_SIZE_LIMIT
    ELSE max_size(report) > CONTRACT_SIZE_LIMIT

\* the digits of n < 1000 as a group of three
group_of_three(n) ==
    IF n < 10 THEN "00" \o ToString(n)
    ELSE IF n < 100 THEN "0" \o ToString(n)
    ELSE ToString(n)

\* the digits of n >= 0 in groups of three, "," between the groups
RECURSIVE grouped(_)
grouped(n) ==
    IF n < 1000 THEN ToString(n)
    ELSE grouped(n \div 1000) \o "," \o group_of_three(n % 1000)

\* to_formatted_string(&Locale::en) (compile.rs 709, 712)
to_formatted_string(n) ==
    IF n < 0 THEN "-" \o grouped(0 - n) ELSE grouped(n)

\* the colour of a row (compile.rs 690-694, 698-702)
row_color(zksync, size) ==
    IF zksync
    THEN IF size <= 329999 THEN "Reset"
         ELSE IF size <= ZKSYNC_CONTRACT_SIZE_LIMIT THEN "Yellow" ELSE "Red"
    ELSE IF size <= 17999 THEN "Reset"
         ELSE IF size <= CONTRACT_SIZE_LIMIT THEN "Yellow" ELSE "Red"

\* the row of one contract (compile.rs 688-715): its margin, and the cells
\* of the table with their colour
table_row(zksync, name, contract) ==
    LET margin == IF zksync
                  THEN ZKSYNC_CONTRACT_SIZE_LIMIT - contract.size
                  ELSE CONTRACT_SIZE_LIMIT - contract.size
    IN [ name |-> name,
         size |-> to_formatted_string(contract.size),
         margin |-> to_formatted_string(margin),
         color |-> row_color(zksync, contract.size) ]

\* mutant: the margin is taken from the EVM limit whatever the target
fmt_evm_margin(self) ==
    LET listed(n) == /\ n \in DOMAIN self.contracts
                     /\ ~ self.contracts[n].is_dev_contract
                     /\ self.contracts[n].size > 0
        keys == SelectSeq(ReportNameOrder, listed)
    IN [ i \in 1..Len(keys) |-> table_row(FALSE, keys[i], self.contracts[keys[i]]) ]

\* impl Display for SizeReport (compile.rs 675-721): the rows of the table,
\* one for each contract that is no dev contract and has a size, in the
\* order of the BTreeMap's keys
fmt(self) ==
    LET listed(n) == /\ n \in DOMAIN self.contracts
                     /\ ~ self.contracts[n].is_dev_contract
                     /\ self.contracts[n].size > 0
        keys == SelectSeq(ReportNameOrder, listed)
    IN [ i \in 1..Len(keys) |-> table_row(self.zksync, keys[i], self.contracts[keys[i]]) ]

call_fmt ==
    /\ last' = [ op |-> "fmt", result |-> fmt(size_report) ]
    /\ UNCHANGED <<cheatVars, size_report, artifact, buildVars, storeVars>>

call_max_size ==
    /\ last' = [ op |-> "max_size", result |-> max_size(size_report) ]
    /\ UNCHANGED <<cheatVars, size_report, artifact, buildVars, storeVars>>

call_exceeds_size_limit ==
    /\ last' = [ op |-> "exceeds_size_limit", result |-> exceeds_size_limit(size_report) ]
    /\ UNCHANGED <<cheatVars, size_report, artifact, buildVars, storeVars>>

(***************************************************************************)
(* deployed_contract_size (compile.rs 723-740)                             *)
(***************************************************************************)
\* the characters of an unlinked bytecode text, one byte each (ASCII)
HexChars == {"0", "x", "f"}
HexStrings == UNION { [1..n -> HexChars] : n \in 0..MaxHexLen }
\* a text of 24,578 characters that begins with "0x"
Hex24578 == <<"0", "x">> \o [ i \in 1..24576 |-> "f" ]

ByteStrings == UNION { [1..n -> {0, 255}] : n \in 0..MaxBytes }

\* enum BytecodeObject { Bytecode(Bytes), Unlinked(String) }
Bytecode(bytes) == [ kind |-> "Bytecode", bytes |-> bytes ]
Unlinked(text) == [ kind |-> "Unlinked", text |-> text ]

BytecodeObjects ==
    { Bytecode(b) : b \in ByteStrings }
      \cup { Unlinked(h) : h \in HexStrings \cup {Hex24578} }

\* an artifact as deployed_contract_size sees it: what
\* get_deployed_bytecode_object() returns (compile.rs 725)
Artifacts ==
    { [ deployed_bytecode |-> None ] }
      \cup { [ deployed_bytecode |-> Some(o) ] : o \in BytecodeObjects }

\* str::starts_with("0x") (compile.rs 732)
starts_with_0x(text) == Len(text) >= 2 /\ text[1] = "0" /\ text[2] = "x"

\* mutant: the "0x" prefix is counted as bytecode
deployed_contract_size_counts_prefix(a) ==
    IF a.deployed_bytecode = None THEN None
    ELSE LET bytecode == a.deployed_bytecode[1]
         IN IF bytecode.kind = "Bytecode"
            THEN Some(Len(bytecode.bytes))
            ELSE Some(Len(bytecode.text) \div 2)

\* deployed_contract_size (compile.rs 724-740)
deployed_contract_size(a) ==
    IF a.deployed_bytecode = None THEN None
    ELSE LET bytecode == a.deployed_bytecode[1]
         IN IF bytecode.kind = "Bytecode"
            THEN Some(Len(bytecode.bytes))
            ELSE LET size == Len(bytecode.text)
                     stripped == IF starts_with_0x(bytecode.text) THEN size - 2 ELSE size
                 IN Some(stripped \div 2)

call_deployed_contract_size ==
    /\ last' = [ op |-> "deployed_contract_size", result |-> deployed_contract_size(artifact) ]
    /\ UNCHANGED <<cheatVars, size_report, artifact, buildVars, storeVars>>

(***************************************************************************)
(* ProjectCompiler: compile / zksync_compile and their output handlers     *)
(* (compile.rs 145-279, 281-510)                                           *)
(***************************************************************************)
\* A file path is <<root, path under the root>>.
Root == "/prj"
SrcCounter == <<Root, "src/Counter.sol">>
SrcCounterTest == <<Root, "test/Counter.t.sol">>
SrcLib == <<Root, "src/Lib.sol">>
SrcForgeStd == <<Root, "lib/forge-std/src/Test.sol">>

\* PathBuf::new().push(root).push(contract_path) (compile.rs 412-414), for a
\* relative contract_path
path_join(root, contract_path) == <<root, contract_path>>

\* id.source.to_string_lossy().contains("/forge-std/src/") (compile.rs 250, 473)
contains_forge_std_src(source) == source \in {SrcForgeStd}

\* A library token is a string cut into its pieces: the separator ":" and
\* the texts between separators.
TokLib == <<"src/Lib.sol", ":", "Lib">>
TokGone == <<"src/Gone.sol", ":", "Gone">>

\* str::split(':') (compile.rs 406): the texts between the separators, ""
\* where two separators (or an end) are adjacent
RECURSIVE split_from(_, _)
split_from(ml, cur) ==
    IF ml = << >> THEN <<cur>>
    ELSE IF Head(ml) = ":" THEN <<cur>> \o split_from(Tail(ml), "")
    ELSE split_from(Tail(ml), Head(ml))

split(ml) == split_from(ml, "")

\* the function names of an ABI that mark a test or script contract
\* (TestFunctionExt: is_any_test / test_function_kind().is_known())
is_test_function(name) == name \in {"testIncrement"}

\* is_dev_contract of handle_output (compile.rs 258-267)
is_dev_contract(a) ==
    a.abi # None /\
      \E f \in a.abi[1] : is_test_function(f) \/ f = "IS_TEST" \/ f = "IS_SCRIPT"

\* is_dev_contract of zksync_handle_output (compile.rs 488-497)
zk_is_dev_contract(a) ==
    IF a.abi = None THEN FALSE
    ELSE \E f \in a.abi[1] : is_test_function(f) \/ f \in {"IS_TEST", "IS_SCRIPT"}

\* size of a contract in handle_output (compile.rs 256)
contract_size(a) ==
    LET size == deployed_contract_size(a)
    IN IF size = None THEN 0 ELSE size[1]

\* size of a contract in zksync_handle_output (compile.rs 479-486)
zk_contract_size(a) ==
    LET bytecode == IF a.bytecode = None THEN Bytecode(<< >>) ELSE a.bytecode[1]
    IN IF bytecode.kind = "Bytecode" THEN Len(bytecode.bytes) ELSE 0

\* the artifacts that are not forge-std's, collected into a BTreeMap by name:
\* of two artifacts with one name the later one stays (compile.rs 246-253,
\* 469-476); the value is the index of the artifact in the output
by_name(artifacts) ==
    LET kept == { i \in 1..Len(artifacts) : ~ contains_forge_std_src(artifacts[i].source) }
        names == { artifacts[i].name : i \in kept }
    IN [ n \in names |->
           CHOOSE i \in kept : /\ artifacts[i].name = n
                               /\ \A j \in kept : artifacts[j].name = n => j <= i ]

\* the SizeReport built by handle_output (compile.rs 244-269)
build_size_report(zksync, artifacts) ==
    LET m == by_name(artifacts)
    IN [ contracts |-> [ n \in DOMAIN m |->
                           [ size |-> contract_size(artifacts[m[n]]),
                             is_dev_contract |-> is_dev_contract(artifacts[m[n]]) ] ],
         zksync |-> zksync ]

\* the SizeReport built by zksync_handle_output (compile.rs 467-499)
zk_build_size_report(zksync, artifacts) ==
    LET m == by_name(artifacts)
    IN [ contracts |-> [ n \in DOMAIN m |->
                           [ size |-> zk_contract_size(artifacts[m[n]]),
                             is_dev_contract |-> zk_is_dev_contract(artifacts[m[n]]) ] ],
         zksync |-> zksync ]

\* handle_output (compile.rs 217-279): the report it prints, if any, and
\* whether it ends the process with exit(1)
handle_output(self, out) ==
    IF self.print_sizes
    THEN LET report == build_size_report(self.zksync, out.artifacts)
         IN [ report |-> Some(report), exit |-> exceeds_size_limit(report) ]
    ELSE [ report |-> None, exit |-> FALSE ]

\* mutant: every artifact is a target file
is_target_file_always(files, a) == TRUE

\* is_target_file (compile.rs 394-395)
is_target_file(files, a) ==
    files = << >> \/ \E i \in 1..Len(files) : a.path = files[i]

\* the in-scope artifacts that report missing libraries, in output order
\* (compile.rs 388-396)
reporting_artifacts(files, artifacts) ==
    SelectSeq(artifacts,
              LAMBDA a : is_target_file(files, a) /\ a.missing_libraries # None)

\* every token the loop hands to extend, repeated ones included
\* (compile.rs 397-399)
RECURSIVE extended(_)
extended(reporting) ==
    IF reporting = << >> THEN << >>
    ELSE Head(reporting).missing_libraries[1] \o extended(Tail(reporting))

\* missing_libs_unique, a HashSet (compile.rs 387-401)
missing_libs_unique(files, artifacts) ==
    LET all == extended(reporting_artifacts(files, artifacts))
    IN { all[k] : k \in 1..Len(all) }

\* output.find(path, name) (compile.rs 416): the artifacts of that source
\* file and contract name
find(artifacts, path, name) ==
    { i \in 1..Len(artifacts) : artifacts[i].source = path /\ artifacts[i].name = name }

PanicNoName == "Failed to extract contract name for missing library"
PanicNotFound == "Could not find contract"

\* the panics the map over the tokens can end in (compile.rs 408-420)
panics(root, artifacts, tokens) ==
    { PanicNoName : ml \in { t \in tokens : Len(split(t)) < 2 } }
      \cup { PanicNotFound :
               ml \in { t \in tokens :
                          /\ Len(split(t)) >= 2
                          /\ find(artifacts, path_join(root, split(t)[1]), split(t)[2]) = {} } }

\* mutant: the record of a token leaves out what its artifact reports
missing_library_without_its_own(root, artifacts, ml) ==
    [ contract_path |-> split(ml)[1],
      contract_name |-> split(ml)[2],
      missing_libraries |-> << >> ]

\* the ZkMissingLibrary of a token (compile.rs 406-426)
missing_library(root, artifacts, ml) ==
    LET contract_path == split(ml)[1]
        contract_name == split(ml)[2]
        hits == find(artifacts, path_join(root, contract_path), contract_name)
        art == artifacts[CHOOSE i \in hits : \A j \in hits : i <= j]
    IN [ contract_path |-> contract_path,
         contract_name |-> contract_name,
         missing_libraries |-> IF art.missing_libraries = None THEN << >>
                               ELSE art.missing_libraries[1] ]

\* libraries::add_dependencies_to_missing_libraries_cache: the records are
\* merged into the cache, which maps (path, name) to a set of tokens
add_dependencies_to_missing_libraries_cache(cache, missing_libs) ==
    LET keys == { <<ml.contract_path, ml.contract_name>> : ml \in missing_libs }
        added(k) == UNION { { ml.missing_libraries[i] : i \in 1..Len(ml.missing_libraries) } :
                              ml \in { x \in missing_libs :
                                         <<x.contract_path, x.contract_name>> = k } }
    IN [ k \in DOMAIN cache \cup keys |->
           (IF k \in DOMAIN cache THEN cache[k] ELSE {})
             \cup (IF k \in keys THEN added(k) ELSE {}) ]

\* mutant: the error names one of the missing libraries only
missing_list_one_only(files, root, artifacts) ==
    LET tokens == missing_libs_unique(files, artifacts)
        entry(ml) == LET r == missing_library(root, artifacts, ml)
                     IN <<r.contract_path, ":", r.contract_name>>
        e == CHOOSE x \in { entry(ml) : ml \in tokens } : TRUE
    IN [ x \in {e} |-> 1 ]

\* the "path:name" entries of the error, one for each token of
\* missing_libs_unique, as a bag: entry |-> number of times it is listed
\* (compile.rs 403-428, 436-440)
missing_list(files, root, artifacts) ==
    LET tokens == missing_libs_unique(files, artifacts)
        entry(ml) == LET r == missing_library(root, artifacts, ml)
                     IN <<r.contract_path, ":", r.contract_name>>
    IN [ e \in { entry(ml) : ml \in tokens } |->
           Cardinality({ ml \in tokens : entry(ml) = e }) ]

\* mutant: the records of the round replace the cache
zksync_handle_output_replaces_cache(self, root, out, cache) ==
    LET tokens == missing_libs_unique(self.files, out.artifacts)
        missing_libs == { missing_library(root, out.artifacts, ml) : ml \in tokens }
    IN IF missing_libs # {}
       THEN [ cache |-> add_dependencies_to_missing_libraries_cache(<< >>, missing_libs),
              ok |-> FALSE,
              missing |-> missing_list(self.files, root, out.artifacts),
              report |-> None, exit |-> FALSE ]
       ELSE [ cache |-> cache, ok |-> TRUE, missing |-> {},
              report |-> None, exit |-> FALSE ]

\* mutant: the size report is built and checked before the missing libraries
\* are looked at
zksync_handle_output_sizes_first(self, root, out, cache) ==
    LET tokens == missing_libs_unique(self.files, out.artifacts)
        missing_libs == { missing_library(root, out.artifacts, ml) : ml \in tokens }
        report == IF self.print_sizes
                  THEN Some(zk_build_size_report(self.zksync, out.artifacts))
                  ELSE None
    IN IF report # None /\ exceeds_size_limit(report[1])
       THEN [ cache |-> cache, ok |-> TRUE, missing |-> {},
              report |-> report, exit |-> TRUE ]
       ELSE IF missing_libs # {}
       THEN [ cache |-> add_dependencies_to_missing_libraries_cache(cache, missing_libs),
              ok |-> FALSE,
              missing |-> missing_list(self.files, root, out.artifacts),
              report |-> report, exit |-> FALSE ]
       ELSE [ cache |-> cache, ok |-> TRUE, missing |-> {},
              report |-> report, exit |-> FALSE ]

\* zksync_handle_output (compile.rs 377-510) once no token panics: the cache,
\* the Result, the "path:name" list of the error, the report it prints and
\* whether it ends the process with exit(1)
zksync_handle_output(self, root, out, cache) ==
    LET tokens == missing_libs_unique(self.files, out.artifacts)
        missing_libs == { missing_library(root, out.artifacts, ml) : ml \in tokens }
    IN IF missing_libs # {}
       THEN [ cache |-> add_dependencies_to_missing_libraries_cache(cache, missing_libs),
              ok |-> FALSE,
              missing |-> missing_list(self.files, root, out.artifacts),
              report |-> None, exit |-> FALSE ]
       ELSE IF self.print_sizes
       THEN LET report == zk_build_size_report(self.zksync, out.artifacts)
            IN [ cache |-> cache, ok |-> TRUE, missing |-> {},
                 report |-> Some(report), exit |-> exceeds_size_limit(report) ]
       ELSE [ cache |-> cache, ok |-> TRUE, missing |-> {},
              report |-> None, exit |-> FALSE ]

\* what a call leaves behind; result is "Ok", "Err", "exit" or "panic"
finished(op, self, result, detail, report) ==
    /\ compiler' = None
    /\ size_report' = IF report = None THEN size_report ELSE report[1]
    /\ last' = [ op |-> op, self |-> self, result |-> result, detail |-> detail,
                 printed_sizes |-> report # None ]

\* ProjectCompiler::compile with compile_with and handle_output
\* (compile.rs 146-214)
compile ==
    /\ compiler # None
    /\ compiler[1].target = "solc"
    /\ LET self == compiler[1]
       IN IF ~ self.has_input_files /\ self.files = << >>
          THEN finished("compile", self, "exit", <<0>>, None)
          ELSE IF ~ output.ok
          THEN finished("compile", self, "Err", <<"compile">>, None)
          ELSE IF self.bail /\ output.has_compiler_errors
          THEN finished("compile", self, "Err", <<"compiler errors">>, None)
          ELSE IF ~ self.quiet
          THEN LET h == handle_output(self, output)
               IN finished("compile", self, IF h.exit THEN "exit" ELSE "Ok",
                           IF h.exit THEN <<1>> ELSE << >>, h.report)
          ELSE finished("compile", self, "Ok", << >>, None)
    /\ UNCHANGED <<cheatVars, artifact, output, missing_libraries_cache, storeVars>>

\* the outcome of a call: the cache it leaves, the result ("Ok", "Err",
\* "exit" or "panic") with its detail, and the size report it printed
outcome(cache, result, detail, report) ==
    [ cache |-> cache, result |-> result, detail |-> detail, report |-> report ]

\* zksync_handle_output as zksync_compile_with calls it (compile.rs 370): the
\* outcomes of the call, one for each token that can panic first
handled(self, root, out, cache) ==
    LET tokens == missing_libs_unique(self.files, out.artifacts)
        ps == panics(root, out.artifacts, tokens)
    IN IF ps # {}
       THEN { outcome(cache, "panic", <<p>>, None) : p \in ps }
       ELSE LET h == zksync_handle_output(self, root, out, cache)
            IN { outcome(h.cache,
                         IF ~ h.ok THEN "Err" ELSE IF h.exit THEN "exit" ELSE "Ok",
                         IF ~ h.ok THEN <<"Missing libraries detected", h.missing>>
                         ELSE IF h.exit THEN <<1>> ELSE << >>,
                         h.report) }

\* mutant: the output is handled in quiet mode too
zksync_compile_with_handles_quiet(self, root, out, cache) ==
    IF ~ out.ok
    THEN { outcome(cache, "Err", <<"compile">>, None) }
    ELSE IF self.bail /\ out.has_compiler_errors
    THEN { outcome(cache, "Err", <<"compiler errors">>, None) }
    ELSE handled(self, root, out, cache)

\* zksync_compile_with (compile.rs 323-374) on what the compiler closure
\* returned: the outcomes of the call
zksync_compile_with(self, root, out, cache) ==
    IF ~ out.ok
    THEN { outcome(cache, "Err", <<"compile">>, None) }
    ELSE IF self.bail /\ out.has_compiler_errors
    THEN { outcome(cache, "Err", <<"compiler errors">>, None) }
    ELSE IF ~ self.quiet
    THEN handled(self, root, out, cache)
    ELSE { outcome(cache, "Ok", << >>, None) }

\* ProjectCompiler::zksync_compile with zksync_compile_with and
\* zksync_handle_output (compile.rs 282-374)
zksync_compile ==
    /\ compiler # None
    /\ compiler[1].target = "zksolc"
    /\ LET self == compiler[1]
       IN IF ~ self.has_input_files /\ self.files = << >>
          THEN /\ UNCHANGED missing_libraries_cache
               /\ finished("zksync_compile", self, "exit", <<0>>, None)
          ELSE \E r \in zksync_compile_with(self, Root, output, missing_libraries_cache) :
                 /\ missing_libraries_cache' = r.cache
                 /\ finished("zksync_compile", self, r.result, r.detail, r.report)
    /\ UNCHANGED <<cheatVars, artifact, output, storeVars>>

\* the settings of a ProjectCompiler (compile.rs 41-62) and the method called
\* on it; files holds at most the Counter source
ProjectCompilers ==
    [ target : {"solc", "zksolc"},
      zksync : BOOLEAN,
      print_sizes : BOOLEAN,
      quiet : BOOLEAN,
      bail : BOOLEAN,
      has_input_files : BOOLEAN,
      files : { << >>, <<SrcCounter>> } ]

\* the bytecode of an artifact: linked, unlinked with and without "0x", none
ArtifactBytecodes ==
    { None, Some(Bytecode(<<0, 255>>)),
      Some(Unlinked(<<"0", "x", "f", "f", "f", "f">>)),
      Some(Unlinked(<<"f", "f">>)) }

\* the Counter artifact of a build output
CounterArtifacts ==
    { [ path |-> <<Root, "out/Counter.sol/Counter.json">>, source |-> SrcCounter,
        name |-> "Counter", bytecode |-> b, deployed_bytecode |-> b,
        abi |-> abi, missing_libraries |-> mls ] :
        b \in ArtifactBytecodes,
        abi \in { None, Some({"increment"}), Some({"increment", "IS_SCRIPT"}) },
        mls \in { None, Some(<< >>), Some(<<TokLib>>), Some(<<TokGone>>),
                  Some(<<<<"src/Lib.sol">>>>) } }

OtherArtifacts ==
    { [ path |-> <<Root, "out/Counter.t.sol/CounterTest.json">>, source |-> SrcCounterTest,
        name |-> "CounterTest", bytecode |-> Some(Bytecode(<<0, 255, 0>>)),
        deployed_bytecode |-> Some(Bytecode(<<0, 255, 0>>)),
        abi |-> Some({"testIncrement"}), missing_libraries |-> None ],
      [ path |-> <<Root, "out/Lib.sol/Lib.json">>, source |-> SrcLib,
        name |-> "Lib", bytecode |-> Some(Bytecode(<<0>>)),
        deployed_bytecode |-> Some(Bytecode(<<0>>)),
        abi |-> None, missing_libraries |-> Some(<<TokGone>>) ],
      [ path |-> <<Root, "out/Test.sol/Test.json">>, source |-> SrcForgeStd,
        name |-> "Test", bytecode |-> Some(Unlinked(<<"f", "f">>)),
        deployed_bytecode |-> Some(Unlinked(<<"f", "f">>)),
        abi |-> Some({"IS_TEST"}), missing_libraries |-> None ] }

\* what the compiler closure returns: an error, or an output whose artifacts
\* are a Counter artifact followed by at most one other artifact
Outputs ==
    { [ ok |-> FALSE ] }
      \cup { [ ok |-> TRUE, has_compiler_errors |-> e, artifacts |-> arts ] :
               e \in BOOLEAN,
               arts \in { <<c>> : c \in CounterArtifacts }
                          \cup { <<c, o>> : c \in CounterArtifacts, o \in OtherArtifacts } }

(***************************************************************************)
(* Build outputs with unresolved libraries (compile.rs 385-442)            *)
(***************************************************************************)
SrcOther == <<Root, "src/Other.sol">>
SrcL1 == <<Root, "src/L1.sol">>
SrcL2 == <<Root, "src/L2.sol">>
SrcL3 == <<Root, "src/L3.sol">>
PathCounter == <<Root, "zkout/Counter.sol/Counter.json">>
PathOther == <<Root, "zkout/Other.sol/Other.json">>

\* well-formed tokens of the libraries L1, L2, L3
TokL1 == <<"src/L1.sol", ":", "L1">>
TokL2 == <<"src/L2.sol", ":", "L2">>
TokL3 == <<"src/L3.sol", ":", "L3">>
\* tokens that are not "path:name": no separator, a third part, an empty
\* name, an empty path
TokNoSep == <<"src/L1.sol">>
TokThreeParts == <<"src/L1.sol", ":", "L1", ":", "extra">>
TokEmptyName == <<"src/L1.sol", ":">>
TokEmptyPath == <<":", "L1">>

\* a zkSync artifact with linked bytecode and the given missing_libraries
zk_artifact(path, source, name, mls) ==
    [ path |-> path, source |-> source, name |-> name,
      bytecode |-> Some(Bytecode(<<0, 255>>)),
      deployed_bytecode |-> Some(Bytecode(<<0, 255>>)),
      abi |-> Some({"increment"}), missing_libraries |-> mls ]

ArtL1(mls) == zk_artifact(<<Root, "zkout/L1.sol/L1.json">>, SrcL1, "L1", mls)
ArtL2(mls) == zk_artifact(<<Root, "zkout/L2.sol/L2.json">>, SrcL2, "L2", mls)
ArtL3(mls) == zk_artifact(<<Root, "zkout/L3.sol/L3.json">>, SrcL3, "L3", mls)

\* the missing_libraries the compiler reports for the Counter artifact
CounterMissing ==
    { None, Some(<< >>), Some(<<TokL1>>), Some(<<TokL1, TokL2, TokL3>>),
      Some(<<TokGone>>), Some(<<TokNoSep>>), Some(<<TokThreeParts>>),
      Some(<<TokEmptyName>>), Some(<<TokEmptyPath>>), Some(<<TokL1, TokNoSep>>) }

\* a second contract that may report libraries of its own
OtherMissing == { << >>, <<Some(<<TokL1>>)>>, <<Some(<<TokL2>>)>> }

\* the library artifacts of an output: none; L1 alone; the chain L1 -> L2 ->
\* L3 with each library reporting the library it uses; the same chain with L1
\* reporting both L2 and L3
LibraryArtifacts ==
    { << >>,
      <<ArtL1(None)>>,
      <<ArtL1(Some(<<TokL2>>)), ArtL2(Some(<<TokL3>>)), ArtL3(None)>>,
      <<ArtL1(Some(<<TokL2, TokL3>>)), ArtL2(Some(<<TokL3>>)), ArtL3(Some(<< >>))>> }

\* build outputs of a project whose contracts use libraries
LibraryOutputs ==
    { [ ok |-> TRUE, has_compiler_errors |-> FALSE,
        artifacts |->
          <<zk_artifact(PathCounter, SrcCounter, "Counter", cm)>>
            \o (IF om = << >> THEN << >>
                ELSE <<zk_artifact(PathOther, SrcOther, "Other", om[1])>>)
            \o libs ] :
        cm \in CounterMissing, om \in OtherMissing, libs \in LibraryArtifacts }

\* zkSync compilers: all files, the Counter source file, the Counter artifact
\* file, the artifact files of Counter and Other
LibraryCompilers ==
    [ target : {"zksolc"},
      zksync : {TRUE},
      print_sizes : BOOLEAN,
      quiet : BOOLEAN,
      bail : {TRUE},
      has_input_files : {TRUE},
      files : { << >>, <<SrcCounter>>, <<PathCounter>>, <<PathCounter, PathOther>> } ]

\* the build rounds of one project: each round has its own ProjectCompiler
\* and output
RoundCompilers ==
    [ target : {"zksolc"},
      zksync : {TRUE},
      print_sizes : {FALSE},
      quiet : BOOLEAN,
      bail : {TRUE},
      has_input_files : {TRUE},
      files : { << >>, <<PathCounter>> } ]

RoundOutputs ==
    { [ ok |-> TRUE, has_compiler_errors |-> FALSE,
        artifacts |-> <<zk_artifact(PathCounter, SrcCounter, "Counter", cm)>> \o libs ] :
        cm \in { None, Some(<<TokL1>>), Some(<<TokL2>>), Some(<<TokGone>>) },
        libs \in { <<ArtL1(Some(<<TokL2>>)), ArtL2(Some(<<TokL3>>)), ArtL3(None)>>,
                   <<ArtL1(Some(<<TokL2, TokL3>>)), ArtL2(None), ArtL3(None)>> } }

\* ProjectCompiler::new for the next build round of the project
\* (compile.rs 71-84); the cache file of the project stays as it is
new ==
    /\ compiler = None
    /\ compiler' \in { Some(c) : c \in RoundCompilers }
    /\ output' \in RoundOutputs
    /\ last' = [ op |-> "new" ]
    /\ UNCHANGED <<cheatVars, size_report, artifact, missing_libraries_cache, storeVars>>

(***************************************************************************)
(* ContractSources (compile.rs 512-637)                                    *)
(***************************************************************************)
\* the most artifacts a ContractSources holds
MaxArtifacts == 2

\* ContractSources::default()
ContractSources_default == [ sources_by_id |-> << >>, artifacts_by_name |-> << >> ]

SrcIFace == <<Root, "src/IFace.sol">>
ExtLib == <<"/ext", "Lib.sol">>
SourcePaths == {SrcCounter, SrcIFace, ExtLib}

\* path.strip_prefix(root).unwrap_or(path), as the components of the name
\* (compile.rs 604)
source_name(root, path) == IF path[1] = root THEN <<path[2]>> ELSE path

\* build.language.into(): the MultiCompilerLanguage of a build's language
\* (compile.rs 603)
language_into(language) ==
    IF language \in {"Solidity", "Yul"} THEN <<"Solc", language>> ELSE <<"Vyper", language>>

\* artifact.into_contract_bytecode() (compile.rs 570)
into_contract_bytecode(a) ==
    [ abi |-> a.abi, bytecode |-> Some("60"), linked |-> FALSE ]

\* linker.link(&id, libraries): the linked artifact, or None for a LinkerError
link(a, libraries) ==
    IF a.linkable
    THEN Some([ abi |-> a.abi, bytecode |-> Some("60"), linked |-> TRUE ])
    ELSE None

\* compact_to_contract: the ContractBytecodeSome, or None for the error of a
\* contract without abi
compact_to_contract(c) ==
    IF c.abi = None \/ c.bytecode = None THEN None
    ELSE Some([ abi |-> c.abi[1], bytecode |-> c.bytecode[1], linked |-> c.linked ])

ErrLink == "linker error"
ErrConvert == "no contract abi"
ErrRead == "failed to read artifact source file"

\* mutant: an artifact without a file id ends the call with an error
RECURSIVE insert_artifacts_id_required(_, _, _)
insert_artifacts_id_required(catalog, ids, libraries) ==
    IF ids = << >> THEN [ artifacts_by_name |-> catalog, err |-> None ]
    ELSE LET a == Head(ids)
         IN IF a.id = None
            THEN [ artifacts_by_name |-> catalog, err |-> Some("source not found") ]
            ELSE LET c == compact_to_contract(into_contract_bytecode(a))
                     data == [ bytecode |-> c[1], build_id |-> a.build_id, file_id |-> a.id[1] ]
                     old == IF a.name \in DOMAIN catalog THEN catalog[a.name] ELSE << >>
                 IN IF c = None
                    THEN [ artifacts_by_name |-> catalog, err |-> Some(ErrConvert) ]
                    ELSE insert_artifacts_id_required(insert(catalog, a.name, Append(old, data)),
                                                      Tail(ids), libraries)

\* the loop over output.artifact_ids() (compile.rs 565-582): the catalog it
\* leaves and the error it stopped with, if any
RECURSIVE insert_artifacts(_, _, _)
insert_artifacts(catalog, ids, libraries) ==
    IF ids = << >> THEN [ artifacts_by_name |-> catalog, err |-> None ]
    ELSE LET a == Head(ids)
         IN IF a.id = None
            THEN insert_artifacts(catalog, Tail(ids), libraries)
            ELSE LET linked == IF libraries # None THEN link(a, libraries[1])
                               ELSE Some(into_contract_bytecode(a))
                     c == compact_to_contract(linked[1])
                     data == [ bytecode |-> c[1], build_id |-> a.build_id, file_id |-> a.id[1] ]
                     old == IF a.name \in DOMAIN catalog THEN catalog[a.name] ELSE << >>
                 IN IF linked = None
                    THEN [ artifacts_by_name |-> catalog, err |-> Some(ErrLink) ]
                    ELSE IF c = None
                    THEN [ artifacts_by_name |-> catalog, err |-> Some(ErrConvert) ]
                    ELSE insert_artifacts(insert(catalog, a.name, Append(old, data)),
                                          Tail(ids), libraries)

\* the (build, source id, path) the two loops over output.builds() visit, in
\* their order (compile.rs 587-588)
RECURSIVE source_entries(_)
source_entries(builds) ==
    IF builds = << >> THEN << >>
    ELSE LET b == Head(builds)
         IN [ k \in 1..Len(b.source_id_to_path) |->
                [ build_id |-> b.build_id, language |-> b.language,
                  source_id |-> b.source_id_to_path[k][1],
                  path |-> b.source_id_to_path[k][2] ] ]
              \o source_entries(Tail(builds))

\* the SourceData of a source (compile.rs 601-605)
source_data(e, root, content) ==
    [ source |-> content, language |-> language_into(e.language),
      name |-> source_name(root, e.path) ]

\* mutant: an unreadable source is left out and the loop goes on
RECURSIVE insert_sources_skip_unreadable(_, _, _, _)
insert_sources_skip_unreadable(table, es, root, read) ==
    IF es = << >> THEN [ sources_by_id |-> table, err |-> None ]
    ELSE LET e == Head(es)
             inner == IF e.build_id \in DOMAIN table THEN table[e.build_id] ELSE << >>
         IN IF read[e.path] = None
            THEN insert_sources_skip_unreadable(table, Tail(es), root, read)
            ELSE insert_sources_skip_unreadable(
                     insert(table, e.build_id,
                            insert(inner, e.source_id, source_data(e, root, read[e.path][1]))),
                     Tail(es), root, read)

\* the loop over the sources (compile.rs 586-608): read[path] is what
\* Source::read returns for the path during the call, None when it fails
RECURSIVE insert_sources(_, _, _, _)
insert_sources(table, es, root, read) ==
    IF es = << >> THEN [ sources_by_id |-> table, err |-> None ]
    ELSE LET e == Head(es)
             inner == IF e.build_id \in DOMAIN table THEN table[e.build_id] ELSE << >>
         IN IF read[e.path] = None
            THEN [ sources_by_id |-> table, err |-> Some(ErrRead) ]
            ELSE insert_sources(
                     insert(table, e.build_id,
                            insert(inner, e.source_id, source_data(e, root, read[e.path][1]))),
                     Tail(es), root, read)

\* what insert leaves and returns, from the outcomes of its two loops
insert_outcome(self, arts, srcs) ==
    IF arts.err # None
    THEN [ sources |-> [ self EXCEPT !.artifacts_by_name = arts.artifacts_by_name ],
           err |-> arts.err ]
    ELSE [ sources |-> [ sources_by_id |-> srcs.sources_by_id,
                         artifacts_by_name |-> arts.artifacts_by_name ],
           err |-> srcs.err ]

\* mutant: insert fails on an artifact without a file id
ContractSources_insert_id_required(self, out, root, libraries, read) ==
    insert_outcome(self,
        insert_artifacts_id_required(self.artifacts_by_name, out.artifact_ids, libraries),
        insert_sources(self.sources_by_id, source_entries(out.builds), root, read))

\* mutant: insert stores the sources that an artifact of the output points at
\* and no other
ContractSources_insert_sources_of_artifacts(self, out, root, libraries, read) ==
    insert_outcome(self,
        insert_artifacts(self.artifacts_by_name, out.artifact_ids, libraries),
        insert_sources(self.sources_by_id,
            SelectSeq(source_entries(out.builds),
                      LAMBDA e : \E k \in 1..Len(out.artifact_ids) :
                                    /\ out.artifact_ids[k].build_id = e.build_id
                                    /\ out.artifact_ids[k].id = Some(e.source_id)),
            root, read))

\* mutant: insert leaves an unreadable source out and goes on
ContractSources_insert_skip_unreadable(self, out, root, libraries, read) ==
    insert_outcome(self,
        insert_artifacts(self.artifacts_by_name, out.artifact_ids, libraries),
        insert_sources_skip_unreadable(self.sources_by_id, source_entries(out.builds),
                                       root, read))

\* ContractSources::insert (compile.rs 550-611): the ContractSources the call
\* leaves and its Result
ContractSources_insert(self, out, root, libraries, read) ==
    insert_outcome(self,
        insert_artifacts(self.artifacts_by_name, out.artifact_ids, libraries),
        insert_sources(self.sources_by_id, source_entries(out.builds), root, read))

\* mutant: the iterator stops after its first pair
with_sources_first_only(self, artifacts) ==
    LET kept == SelectSeq(artifacts,
                          LAMBDA a : /\ a.build_id \in DOMAIN self.sources_by_id
                                     /\ a.file_id \in DOMAIN self.sources_by_id[a.build_id])
    IN IF kept = << >> THEN << >>
       ELSE << <<kept[1], self.sources_by_id[kept[1].build_id][kept[1].file_id]>> >>

\* the filter_map of get_sources and entries (compile.rs 619-623, 630-634)
with_sources(self, artifacts) ==
    LET kept == SelectSeq(artifacts,
                          LAMBDA a : /\ a.build_id \in DOMAIN self.sources_by_id
                                     /\ a.file_id \in DOMAIN self.sources_by_id[a.build_id])
    IN [ k \in 1..Len(kept) |->
           <<kept[k], self.sources_by_id[kept[k].build_id][kept[k].file_id]>> ]

\* ContractSources::get_sources (compile.rs 614-625): None, or the items of
\* the iterator
get_sources(self, name) ==
    IF name \in DOMAIN self.artifacts_by_name
    THEN Some(with_sources(self, self.artifacts_by_name[name]))
    ELSE None

\* ContractSources::entries (compile.rs 628-636): the items of the iterator
\* when the HashMap hands out the names in the given order
RECURSIVE entries(_, _)
entries(self, order) ==
    IF order = << >> THEN << >>
    ELSE LET name == Head(order)
             pairs == with_sources(self, self.artifacts_by_name[name])
         IN [ k \in 1..Len(pairs) |-> <<name, pairs[k][1], pairs[k][2]>> ]
              \o entries(self, Tail(order))

\* the orders in which a HashMap may hand out its keys
key_orders(map) ==
    { o \in [ 1..Cardinality(DOMAIN map) -> DOMAIN map ] :
        \A k \in DOMAIN map : \E i \in DOMAIN o : o[i] = k }

\* the artifact ids of an output
ArtCounter(build_id) ==
    [ name |-> "Counter", build_id |-> build_id, id |-> Some(0),
      abi |-> Some("abi"), linkable |-> TRUE ]
ArtIFace == [ name |-> "IFace", build_id |-> "b1", id |-> None,
              abi |-> Some("abi"), linkable |-> TRUE ]
ArtExtLib == [ name |-> "Lib", build_id |-> "b2", id |-> Some(1),
               abi |-> Some("abi"), linkable |-> FALSE ]
ArtNoSource == [ name |-> "Lib", build_id |-> "b2", id |-> Some(7),
                 abi |-> Some("abi"), linkable |-> TRUE ]
ArtNoAbi == [ name |-> "Counter", build_id |-> "b1", id |-> Some(0),
              abi |-> None, linkable |-> TRUE ]

\* the builds of an output with their source id tables
Build1 == [ build_id |-> "b1", language |-> "Solidity",
            source_id_to_path |-> << <<0, SrcCounter>>, <<1, SrcIFace>> >> ]
Build2 == [ build_id |-> "b2", language |-> "Vyper",
            source_id_to_path |-> << <<0, SrcCounter>>, <<1, ExtLib>> >> ]

\* the outputs handed to insert
ProjectOutputs ==
    { [ artifact_ids |-> <<ArtCounter("b1")>>, builds |-> <<Build1>> ],
      [ artifact_ids |-> <<ArtCounter("b1"), ArtIFace>>, builds |-> <<Build1>> ],
      [ artifact_ids |-> <<ArtCounter("b2"), ArtExtLib>>, builds |-> <<Build1, Build2>> ],
      [ artifact_ids |-> <<ArtNoSource>>, builds |-> <<Build2>> ],
      [ artifact_ids |-> <<ArtCounter("b1"), ArtNoAbi>>, builds |-> <<Build1>> ] }

\* what Source::read returns for each path during one call
Reads ==
    { [ p \in SourcePaths |-> Some("v1") ],
      [ p \in SourcePaths |-> IF p = SrcCounter THEN Some("v2") ELSE Some("v1") ],
      [ p \in SourcePaths |-> IF p = SrcIFace THEN None ELSE Some("v1") ] }

\* the libraries argument
LibrariesOptions == { None, Some("libraries") }

\* the number of artifacts a ContractSources holds
RECURSIVE count_artifacts(_, _)
count_artifacts(catalog, names) ==
    IF names = {} THEN 0
    ELSE LET n == CHOOSE x \in names : TRUE
         IN Len(catalog[n]) + count_artifacts(catalog, names \ {n})

\* a call of sources.insert(output, root, libraries)
call_insert ==
    /\ \E out \in ProjectOutputs, libraries \in LibrariesOptions, read \in Reads :
         /\ count_artifacts(sources.artifacts_by_name, DOMAIN sources.artifacts_by_name)
              + Len(out.artifact_ids) <= MaxArtifacts
         /\ LET r == ContractSources_insert(sources, out, Root, libraries, read)
            IN /\ sources' = r.sources
               /\ last' = [ op |-> "insert", output |-> out, libraries |-> libraries,
                            read |-> read, result |-> IF r.err = None THEN "Ok" ELSE "Err",
                            err |-> r.err ]
    /\ UNCHANGED <<cheatVars, size_report, artifact, buildVars>>

\* ContractSources::from_project_output (compile.rs 538-548): the new
\* ContractSources when insert succeeds, the error otherwise
call_from_project_output ==
    /\ \E out \in ProjectOutputs, libraries \in LibrariesOptions, read \in Reads :
         LET r == ContractSources_insert(ContractSources_default, out, Root, libraries, read)
         IN /\ sources' = IF r.err = None THEN r.sources ELSE sources
            /\ last' = [ op |-> "from_project_output", output |-> out,
                         libraries |-> libraries, read |-> read,
                         result |-> IF r.err = None THEN "Ok" ELSE "Err", err |-> r.err ]
    /\ UNCHANGED <<cheatVars, size_report, artifact, buildVars>>

\* the names asked for
QueryNames == {"Counter", "IFace", "Lib", "Gone"}

\* a call of sources.get_sources(name) that collects the iterator
call_get_sources ==
    /\ \E name \in QueryNames :
         last' = [ op |-> "get_sources", name |-> name,
                   result |-> get_sources(sources, name) ]
    /\ UNCHANGED <<cheatVars, size_report, artifact, buildVars, storeVars>>

\* a call of sources.entries() that collects the iterator
call_entries ==
    /\ \E order \in key_orders(sources.artifacts_by_name) :
         last' = [ op |-> "entries", result |-> entries(sources, order) ]
    /\ UNCHANGED <<cheatVars, size_report, artifact, buildVars, storeVars>>

(***************************************************************************)
(* Linker::link, as ContractSources::insert uses it (compile.rs 560-572)   *)
(***************************************************************************)
\* the items of bytecode handed to the linker: a byte, the placeholder of a
\* library ("path:name"), or the address put in its place; a placeholder is
\* as wide as an address
Placeholder(key) == <<"placeholder", key>>
Address(a) == <<"address", a>>
LinkKeys == {TokL1, TokL2}
LinkAddresses == {1, 2}
LinkItems ==
    { <<"byte", 96>> } \cup { Placeholder(k) : k \in LinkKeys }
      \cup { Address(a) : a \in LinkAddresses }

LinkBytecodes == UNION { [ 1..n -> LinkItems ] : n \in 0..MaxLinkLen }

\* the Libraries handed to link: the address of each library that has one
LinkLibraries == UNION { [ ks -> LinkAddresses ] : ks \in SUBSET LinkKeys }

\* mutant: a placeholder without an address in the map is filled with an
\* address all the same
link_bytecode_fills_all(code, libraries) ==
    [ i \in 1..Len(code) |->
        IF code[i][1] = "placeholder"
        THEN Address(IF code[i][2] \in DOMAIN libraries THEN libraries[code[i][2]] ELSE 1)
        ELSE code[i] ]

\* what link does to the bytecode of an artifact: a placeholder whose key has
\* an address in the map becomes that address, everything else stays
link_bytecode(code, libraries) ==
    [ i \in 1..Len(code) |->
        IF code[i][1] = "placeholder" /\ code[i][2] \in DOMAIN libraries
        THEN Address(libraries[code[i][2]])
        ELSE code[i] ]

\* linker.link(&id, libraries) on the artifact at hand; the linked bytecode
\* takes the place of the artifact's
call_link ==
    /\ \E libraries \in LinkLibraries :
         LET linked == link_bytecode(artifact.bytecode, libraries)
         IN /\ artifact' = [ artifact EXCEPT !.bytecode = linked ]
            /\ last' = [ op |-> "link", libraries |-> libraries,
                         bytecode |-> artifact.bytecode, result |-> linked ]
    /\ UNCHANGED <<cheatVars, size_report, buildVars, storeVars>>

(***************************************************************************)
(* Specifications                                                          *)
(***************************************************************************)
\* the Cheatcodes state of a fresh test run
InitCheatcodes ==
    /\ dual_compiled_contracts = << >>
    /\ breakpoints = << >>
    /\ pc = 0
    /\ use_zk_vm = FALSE
    /\ deployed = {}

\* no ContractSources collected
InitNoSources == sources = ContractSources_default

\* no build in progress
InitNoBuild ==
    /\ compiler = None
    /\ output = None
    /\ missing_libraries_cache = << >>

Init ==
    /\ InitCheatcodes
    /\ InitNoSources
    /\ InitNoBuild
    /\ size_report = new_size_report(FALSE)
    /\ artifact = [ deployed_bytecode |-> None ]
    /\ last = [ op |-> "init" ]

NextRegistry == zkRegisterContract

SpecRegistry == Init /\ [][NextRegistry]_vars

NextBreakpoint == breakpoint_0 \/ breakpoint_1 \/ step

SpecBreakpoint == Init /\ [][NextBreakpoint]_vars

\* a test run that starts in either VM, switches and creates contracts
InitGate ==
    /\ dual_compiled_contracts = << >>
    /\ breakpoints = << >>
    /\ pc = 0
    /\ use_zk_vm \in BOOLEAN
    /\ deployed = {}
    /\ InitNoSources
    /\ InitNoBuild
    /\ size_report = new_size_report(FALSE)
    /\ artifact = [ deployed_bytecode |-> None ]
    /\ last = [ op |-> "init" ]

NextGate == zkVm \/ create \/ call

SpecGate == InitGate /\ [][NextGate]_vars

\* a test run that uses every cheatcode: registrations of contracts with one
\* bytecode, breakpoints with labels of at most one code point, VM switches
host_register ==
    /\ zkRegisterContract
    /\ Len(dual_compiled_contracts') <= MaxHostRegistry
    /\ last'.new.evm_bytecode = <<96, 128, 0>>

host_breakpoint_0 == breakpoint_0 /\ Len(last'.s) <= 1

host_breakpoint_1 == breakpoint_1 /\ Len(last'.s) <= 1

NextHost == host_register \/ host_breakpoint_0 \/ host_breakpoint_1 \/ zkVm

SpecHost == Init /\ [][NextHost]_vars

\* any size report, queried
InitSizeReport ==
    /\ InitCheatcodes
    /\ InitNoSources
    /\ InitNoBuild
    /\ size_report \in SizeReports
    /\ artifact = [ deployed_bytecode |-> None ]
    /\ last = [ op |-> "init" ]

NextSizeReport == call_max_size \/ call_exceeds_size_limit \/ call_fmt

SpecSizeReport == InitSizeReport /\ [][NextSizeReport]_vars

\* any artifact, measured
InitContractSize ==
    /\ InitCheatcodes
    /\ InitNoSources
    /\ InitNoBuild
    /\ size_report = new_size_report(FALSE)
    /\ artifact \in Artifacts
    /\ last = [ op |-> "init" ]

NextContractSize == call_deployed_contract_size

SpecContractSize == InitContractSize /\ [][NextContractSize]_vars

\* a ProjectCompiler and the output of its compiler closure
InitCompile ==
    /\ InitCheatcodes
    /\ InitNoSources
    /\ size_report = new_size_report(FALSE)
    /\ artifact = [ deployed_bytecode |-> None ]
    /\ compiler \in { Some(c) : c \in ProjectCompilers }
    /\ output \in Outputs
    /\ missing_libraries_cache = << >>
    /\ last = [ op |-> "init" ]

NextCompile == compile \/ zksync_compile

SpecCompile == InitCompile /\ [][NextCompile]_vars

\* a zkSync compiler and the output of a project with libraries
InitMissing ==
    /\ InitCheatcodes
    /\ InitNoSources
    /\ size_report = new_size_report(FALSE)
    /\ artifact = [ deployed_bytecode |-> None ]
    /\ compiler \in { Some(c) : c \in LibraryCompilers }
    /\ output \in LibraryOutputs
    /\ missing_libraries_cache = << >>
    /\ last = [ op |-> "init" ]

NextMissing == zksync_compile

SpecMissing == InitMissing /\ [][NextMissing]_vars

\* build rounds over one cache
InitRounds ==
    /\ InitCheatcodes
    /\ InitNoSources
    /\ size_report = new_size_report(FALSE)
    /\ artifact = [ deployed_bytecode |-> None ]
    /\ compiler \in { Some(c) : c \in RoundCompilers }
    /\ output \in RoundOutputs
    /\ missing_libraries_cache = << >>
    /\ last = [ op |-> "init" ]

NextRounds == zksync_compile \/ new

SpecRounds == InitRounds /\ [][NextRounds]_vars

\* an artifact with bytecode, linked and linked again
InitLink ==
    /\ InitCheatcodes
    /\ InitNoSources
    /\ InitNoBuild
    /\ size_report = new_size_report(FALSE)
    /\ artifact \in { [ bytecode |-> code ] : code \in LinkBytecodes }
    /\ last = [ op |-> "init" ]

NextLink == call_link

SpecLink == InitLink /\ [][NextLink]_vars

\* an empty ContractSources
NextSources == call_insert \/ call_from_project_output \/ call_get_sources \/ call_entries

SpecSources == Init /\ [][NextSources]_vars

(***************************************************************************)
(* Properties of the registry                                              *)
(***************************************************************************)
\* the identity key of an entry: (target-A hash, target-B hash)
Key(c) == <<c.evm_bytecode_hash, c.zk_bytecode_hash>>

KeyInRegistry(contracts, c) == \E i \in 1..Len(contracts) : Key(contracts[i]) = Key(c)

IsPrefix(a, b) == Len(a) <= Len(b) /\ \A i \in 1..Len(a) : a[i] = b[i]

IsRegistration(l) == l.op = "zkRegisterContract"

\* C1: a registration whose (evm hash, zk hash) key is not yet in the registry
\* makes the registry one entry longer; one whose key is present leaves its
\* length as it was.
C1_SizeGrowsOnlyOnNewKey ==
    [][ IsRegistration(last') =>
          Len(dual_compiled_contracts') =
            Len(dual_compiled_contracts)
              + (IF KeyInRegistry(dual_compiled_contracts, last'.new) THEN 0 ELSE 1)
      ]_vars

\* two registrations with distinct keys were stored, then the first key was
\* registered again
C1_Witness ==
    /\ IsRegistration(last)
    /\ Len(dual_compiled_contracts) = 2
    /\ Key(dual_compiled_contracts[1]) = Key(last.new)
    /\ last.warn # None

\* C2: the registry never holds two entries with the same (evm hash, zk hash)
\* key; entries may agree on one of the two hashes.
C2_OneEntryPerKey ==
    \A i, j \in 1..Len(dual_compiled_contracts) :
        i # j => Key(dual_compiled_contracts[i]) # Key(dual_compiled_contracts[j])

\* two entries that share the evm hash and differ in the zk hash, after a
\* further registration of one of the two keys
C2_Witness ==
    /\ Len(dual_compiled_contracts) = 2
    /\ dual_compiled_contracts[1].evm_bytecode_hash
         = dual_compiled_contracts[2].evm_bytecode_hash
    /\ dual_compiled_contracts[1].zk_bytecode_hash
         # dual_compiled_contracts[2].zk_bytecode_hash
    /\ IsRegistration(last) /\ last.warn # None

\* C3: a registration whose key is already in the registry returns Ok and
\* leaves the registry as it was, whatever name and bytecode it carries.
C3_DuplicateIsNoOpSuccess ==
    [][ (IsRegistration(last') /\ KeyInRegistry(dual_compiled_contracts, last'.new)) =>
          /\ last'.ok
          /\ dual_compiled_contracts' = dual_compiled_contracts
      ]_vars

\* the stored entry kept its name and bytecode although the last registration
\* of its key carried another name and other bytecode
C3_Witness ==
    /\ IsRegistration(last) /\ last.ok /\ last.warn # None
    /\ Len(dual_compiled_contracts) = 1
    /\ Key(dual_compiled_contracts[1]) = Key(last.new)
    /\ dual_compiled_contracts[1].name # last.new.name
    /\ dual_compiled_contracts[1].evm_bytecode # last.new.evm_bytecode
    /\ last.warn = Some(dual_compiled_contracts[1].name)

\* C4: the registry is append-only: the registry before a call is a prefix of
\* the registry after it, and what a call adds is its own entry, at the end.
C4_AppendOnly ==
    [][ /\ IsPrefix(dual_compiled_contracts, dual_compiled_contracts')
        /\ dual_compiled_contracts' # dual_compiled_contracts =>
             dual_compiled_contracts' = Append(dual_compiled_contracts, last'.new)
      ]_vars

\* the last registration was stored behind an older entry
C4_Witness ==
    /\ IsRegistration(last) /\ last.warn = None
    /\ Len(dual_compiled_contracts) = 2
    /\ dual_compiled_contracts[2] = last.new
    /\ dual_compiled_contracts[1] # last.new

(***************************************************************************)
(* Properties of the breakpoints                                           *)
(***************************************************************************)
IsBreakpoint(l) == l.op = "breakpoint"

\* a label of exactly one alphabetic code point
ValidLabel(s) == Len(s) = 1 /\ s[1] \in {"a", "U+00E9"}

\* C5: a breakpoint call (set or clear) succeeds exactly when its label is one
\* alphabetic code point; every other label fails with a validation error.
C5_LabelValidation ==
    IsBreakpoint(last) =>
        /\ last.ok <=> ValidLabel(last.s)
        /\ ~ last.ok => last.err \in {ErrLength, ErrAlpha}
        /\ Len(last.s) # 1 => last.err = ErrLength
        /\ (Len(last.s) = 1 /\ ~ ValidLabel(last.s)) => last.err = ErrAlpha

\* a label of two alphabetic characters was refused
C5_Witness ==
    /\ IsBreakpoint(last) /\ ~ last.ok
    /\ Len(last.s) = 2 /\ last.s[1] = "a" /\ last.s[2] = "a"

\* C6: a successful set makes the query of its label return (caller, pc) of
\* that call, overwriting any older location; a successful clear makes it
\* return nothing; the query of every other label, and every query across a
\* step that is no successful breakpoint call, returns what it returned before.
\* Hence a query returns the most recent set not followed by a clear.
C6_QueryReturnsLastSet ==
    [][ IF IsBreakpoint(last') /\ last'.ok
        THEN /\ get(breakpoints', last'.s[1]) =
                  (IF last'.add THEN Some(<<last'.caller, pc>>) ELSE None)
             /\ \A c \in Chars \ {last'.s[1]} :
                  get(breakpoints', c) = get(breakpoints, c)
        ELSE \A c \in Chars : get(breakpoints', c) = get(breakpoints, c)
      ]_vars

\* label 'a' had a location and the last call set it again, at another pc
C6_Witness ==
    /\ IsBreakpoint(last) /\ last.ok /\ last.add /\ last.had
    /\ last.s = <<"a">> /\ last.caller = 2 /\ last.pc = 1
    /\ get(breakpoints, "a") = Some(<<2, 1>>)
    /\ pc = 1

\* C7: clearing a valid label succeeds and leaves the label without a
\* location; when the label had none, the map is left as it was, so a second
\* clear gives the map and the result of the first.
C7_ClearIsIdempotent ==
    [][ (IsBreakpoint(last') /\ ~ last'.add /\ ValidLabel(last'.s)) =>
          /\ last'.ok
          /\ last'.s[1] \notin DOMAIN breakpoints'
          /\ last'.s[1] \notin DOMAIN breakpoints => breakpoints' = breakpoints
      ]_vars

\* a label without a location was cleared while another label has one
C7_Witness ==
    /\ IsBreakpoint(last) /\ ~ last.add /\ last.ok /\ ~ last.had
    /\ last.s = <<"a">>
    /\ DOMAIN breakpoints = {"U+00E9"}

(***************************************************************************)
(* Properties of the size report and of the contract size                  *)
(***************************************************************************)
SetMax(S) == CHOOSE x \in S : \A y \in S : y <= x

\* the sizes of the contracts of a report that are neither dev contracts nor
\* of size zero
CountedSizes(report) ==
    { report.contracts[n].size :
        n \in { m \in DOMAIN report.contracts :
                  /\ ~ report.contracts[m].is_dev_contract
                  /\ report.contracts[m].size # 0 } }

\* the limit of the active target: target A 24,576 bytes, target B 450,999
Threshold(report) == IF report.zksync THEN 450999 ELSE 24576

\* the report without its dev contracts
WithoutDev(report) ==
    [ report EXCEPT !.contracts =
        [ n \in { m \in DOMAIN report.contracts :
                    ~ report.contracts[m].is_dev_contract } |-> report.contracts[n] ] ]

\* the report with contract n entered as a dev contract of size sz
WithDev(report, n, sz) ==
    [ report EXCEPT !.contracts =
        [ m \in DOMAIN report.contracts \cup {n} |->
            IF m = n THEN [ size |-> sz, is_dev_contract |-> TRUE ]
            ELSE report.contracts[m] ] ]

\* C8: exceeds_size_limit is true exactly when the largest size among the
\* non-dev, non-zero contracts is strictly above the threshold of the active
\* target (so never for an empty or all-dev report), and entering, resizing or
\* removing dev contracts does not change it.
C8_ExceedsIffMaxNonDevAboveThreshold ==
    last.op = "exceeds_size_limit" =>
        /\ last.result =
             ( /\ CountedSizes(size_report) # {}
               /\ SetMax(CountedSizes(size_report)) > Threshold(size_report) )
        /\ exceeds_size_limit(WithoutDev(size_report)) = last.result
        /\ \A n \in ReportNames, sz \in Sizes :
             (n \in DOMAIN size_report.contracts =>
                size_report.contracts[n].is_dev_contract)
               => exceeds_size_limit(WithDev(size_report, n, sz)) = last.result

\* a target-A report whose only non-dev contract is exactly at the limit, next
\* to a far larger dev contract, does not exceed
C8_Witness ==
    /\ last.op = "exceeds_size_limit" /\ last.result = FALSE
    /\ ~ size_report.zksync
    /\ DOMAIN size_report.contracts = {"Counter", "CounterTest"}
    /\ size_report.contracts["Counter"] = [ size |-> 24576, is_dev_contract |-> FALSE ]
    /\ size_report.contracts["CounterTest"] = [ size |-> 451000, is_dev_contract |-> TRUE ]

HasPrefix0x(text) == Len(text) >= 2 /\ SubSeq(text, 1, 2) = <<"0", "x">>

\* the text after its "0x" prefix
Body(text) == SubSeq(text, 3, Len(text))

\* a text of hex digits only
IsHexText(text) == \A i \in 1..Len(text) : text[i] \in {"0", "f"}

\* C9: the size of unlinked deployed bytecode is the character count of its
\* text, less two when it starts with "0x", halved; a text of 24,578 characters
\* with the prefix gives 12,288; the text without its prefix gives the same
\* size as the text with it.
C9_UnlinkedSizeFromHexText ==
    (last.op = "deployed_contract_size" /\ artifact.deployed_bytecode # None
       /\ artifact.deployed_bytecode[1].kind = "Unlinked") =>
        LET text == artifact.deployed_bytecode[1].text
        IN /\ last.result =
                Some((Len(text) - (IF HasPrefix0x(text) THEN 2 ELSE 0)) \div 2)
           /\ (Len(text) = 24578 /\ HasPrefix0x(text)) => last.result = Some(12288)
           /\ (HasPrefix0x(text) /\ IsHexText(Body(text))) =>
                deployed_contract_size(
                    [ deployed_bytecode |-> Some(Unlinked(Body(text))) ]) = last.result

\* the text of 24,578 characters was measured as 12,288 bytes
C9_Witness ==
    /\ last.op = "deployed_contract_size"
    /\ artifact.deployed_bytecode = Some(Unlinked(Hex24578))
    /\ Len(artifact.deployed_bytecode[1].text) = 24578
    /\ last.result = Some(12288)

(***************************************************************************)
(* Properties of the size reports of the two output handlers               *)
(***************************************************************************)
\* the size of a bytecode text: its characters, less a "0x" prefix, halved
HexSize(text) == (Len(text) - (IF HasPrefix0x(text) THEN 2 ELSE 0)) \div 2

\* the bytecode object a handler measures: compile reads the deployed
\* bytecode, zksync_compile the bytecode of the zkSync artifact
Measured(a) == IF last.op = "compile" THEN a.deployed_bytecode ELSE a.bytecode

\* the unlinked bytecode texts of the artifacts a printed report lists, with
\* the size the report records for each
ReportedUnlinked ==
    { <<Measured(output.artifacts[i])[1].text,
        size_report.contracts[output.artifacts[i].name].size>> :
        i \in { j \in 1..Len(output.artifacts) :
                  /\ output.artifacts[j].name \in DOMAIN size_report.contracts
                  /\ Measured(output.artifacts[j]) # None
                  /\ Measured(output.artifacts[j])[1].kind = "Unlinked" } }

\* C10: for both targets, the size a printed size report records for an
\* artifact with unlinked bytecode is the size of its hex text (characters
\* less an optional "0x" prefix, halved).
C10_UnlinkedSizeSameRuleBothTargets ==
    (last.op \in {"compile", "zksync_compile"} /\ last.printed_sizes) =>
        \A r \in ReportedUnlinked : r[2] = HexSize(r[1])


(***************************************************************************)
(* Missing-library detection                                               *)
(***************************************************************************)
\* the last call was a zksync_compile that went into zksync_handle_output
DetectionRan ==
    /\ last.op = "zksync_compile"
    /\ ~ last.self.quiet
    /\ output.ok
    /\ ~ (last.self.bail /\ output.has_compiler_errors)
    /\ (last.self.has_input_files \/ last.self.files # << >>)

\* the tokens of the artifacts in scope of the last call
ScopeTokens == missing_libs_unique(last.self.files, output.artifacts)

HasSeparator(t) == \E k \in 1..Len(t) : t[k] = ":"

\* a token made of a path, the separator and a name
IsPathName(t) == Len(t) = 3 /\ t[1] # ":" /\ t[2] = ":" /\ t[3] # ":"

\* C11: every token of a detection splits into exactly two non-empty parts
\* on ":": a token without the separator ends the call in a panic, and so
\* does a token with an empty part or with more than two parts; none is
\* accepted as a "path:name"
C11_TokenIsPathAndName ==
    DetectionRan =>
        /\ (\E t \in ScopeTokens : ~ HasSeparator(t)) => last.result = "panic"
        /\ (\E t \in ScopeTokens : ~ IsPathName(t)) => last.result = "panic"

\* the position of the first separator of a token, past its end when it has
\* none
FirstSeparator(t) ==
    IF HasSeparator(t)
    THEN CHOOSE k \in 1..Len(t) : t[k] = ":" /\ \A j \in 1..(k - 1) : t[j] # ":"
    ELSE Len(t) + 1

\* the text before the first separator and the text between the first and
\* the second one
PathPart(t) == IF FirstSeparator(t) = 1 THEN "" ELSE t[1]

NamePart(t) ==
    LET k == FirstSeparator(t)
    IN IF k + 1 <= Len(t) /\ t[k + 1] # ":" THEN t[k + 1] ELSE ""

\* the token has a separator and its first two parts name an artifact of the
\* output by source file and contract name
NamesArtifact(t) ==
    /\ HasSeparator(t)
    /\ \E i \in 1..Len(output.artifacts) :
         /\ output.artifacts[i].source = <<Root, PathPart(t)>>
         /\ output.artifacts[i].name = NamePart(t)

\* the "path:name" of every token in scope, each token listed once
ScopeList ==
    LET entry(t) == <<PathPart(t), ":", NamePart(t)>>
    IN [ e \in { entry(t) : t \in ScopeTokens } |->
           Cardinality({ t \in ScopeTokens : entry(t) = e }) ]

OutputArtifacts == { output.artifacts[i] : i \in 1..Len(output.artifacts) }

\* the libraries the artifact named by a token reports itself
OwnMissing(t) ==
    LET hits == { i \in 1..Len(output.artifacts) :
                    /\ output.artifacts[i].source = <<Root, PathPart(t)>>
                    /\ output.artifacts[i].name = NamePart(t) }
        art == output.artifacts[CHOOSE i \in hits : \A j \in hits : i <= j]
    IN IF art.missing_libraries = None THEN {}
       ELSE { art.missing_libraries[1][k] : k \in 1..Len(art.missing_libraries[1]) }

\* L1 reports L2, L2 reports L3, and Counter reports L1 alone
ChainOfThree ==
    /\ ArtL1(Some(<<TokL2>>)) \in OutputArtifacts
    /\ ArtL2(Some(<<TokL3>>)) \in OutputArtifacts
    /\ ArtL3(None) \in OutputArtifacts
    /\ zk_artifact(PathCounter, SrcCounter, "Counter", Some(<<TokL1>>)) \in OutputArtifacts

CounterInScope ==
    last.self.files = << >> \/ last.self.files = <<PathCounter>>

\* the tokens a failed detection has brought up: the listed ones and the
\* ones recorded in the cache
Surfaced ==
    { <<e[1], ":", e[3]>> : e \in DOMAIN last.detail[2] }
      \cup UNION { missing_libraries_cache[k] : k \in DOMAIN missing_libraries_cache }

Triples(cache) ==
    UNION { { <<k[1], k[2], t>> : t \in cache[k] } : k \in DOMAIN cache }

\* the keys and triples the records of the last round hold
RoundKeys == { <<PathPart(t), NamePart(t)>> : t \in ScopeTokens }

RoundTriples ==
    UNION { { <<PathPart(t), NamePart(t), d>> : d \in OwnMissing(t) } : t \in ScopeTokens }

\* C14: every step keeps each key and each (path, name, token) triple of the
\* cache, and a round that fails with the missing-libraries error leaves the
\* cache as the union of what it held and the records of the round
C14_CacheIsUnionMerged ==
    [][ /\ DOMAIN missing_libraries_cache \subseteq DOMAIN missing_libraries_cache'
        /\ Triples(missing_libraries_cache) \subseteq Triples(missing_libraries_cache')
        /\ (last'.op = "zksync_compile" /\ last'.result = "Err" /\ DetectionRan') =>
              /\ DOMAIN missing_libraries_cache' =
                   DOMAIN missing_libraries_cache \cup RoundKeys'
              /\ Triples(missing_libraries_cache') =
                   Triples(missing_libraries_cache) \cup RoundTriples'
        /\ ~ (last'.op = "zksync_compile" /\ last'.result = "Err") =>
              missing_libraries_cache' = missing_libraries_cache ]_vars

\* a failed round has added its records to a cache that holds a key and a
\* triple of an earlier round
C14_Witness ==
    /\ DetectionRan
    /\ last.result = "Err"
    /\ RoundTriples # {}
    /\ \E k \in DOMAIN missing_libraries_cache : k \notin RoundKeys
    /\ \E x \in Triples(missing_libraries_cache) : x \notin RoundTriples
    /\ RoundTriples \subseteq Triples(missing_libraries_cache)

\* the artifacts whose path is in the target-file set of the last call, all
\* of them when the set is empty
InScope ==
    { a \in OutputArtifacts :
        \/ last.self.files = << >>
        \/ \E i \in 1..Len(last.self.files) : a.path = last.self.files[i] }

\* the tokens an artifact reports
Reported(a) ==
    IF a.missing_libraries = None THEN {}
    ELSE { a.missing_libraries[1][k] : k \in 1..Len(a.missing_libraries[1]) }

InScopeTokens == UNION { Reported(a) : a \in InScope }

\* tokens that only artifacts out of scope report
OutOfScopeTokens == UNION { Reported(a) : a \in OutputArtifacts \ InScope } \ InScopeTokens

\* the number of entries of the error list, repeated ones counted
ListLength(list) ==
    Cardinality(UNION { { <<e, i>> : i \in 1..list[e] } : e \in DOMAIN list })

\* the tokens the cache holds as a key or as a recorded library
CacheTokens ==
    { <<k[1], ":", k[2]>> : k \in DOMAIN missing_libraries_cache }
      \cup UNION { missing_libraries_cache[k] : k \in DOMAIN missing_libraries_cache }

IngestStep == last'.op \in {"insert", "from_project_output"}

\* the ContractSources the call of the step works on
IngestBefore == IF last'.op = "insert" THEN sources ELSE ContractSources_default

\* the artifacts stored under a name
StoredUnder(store, name) ==
    IF name \in DOMAIN store.artifacts_by_name THEN store.artifacts_by_name[name] ELSE << >>

\* the (build id, file id) of stored artifacts, in their order
BuildAndFile(stored) == [ k \in 1..Len(stored) |-> <<stored[k].build_id, stored[k].file_id>> ]

\* the (build id, file id) of the artifacts of an output that have a name and
\* a file id, in their order
WithFileId(out, name) ==
    LET kept == SelectSeq(out.artifact_ids, LAMBDA a : a.name = name /\ a.id # None)
    IN [ k \in 1..Len(kept) |-> <<kept[k].build_id, kept[k].id[1]>> ]

ContractNames == {"Counter", "IFace", "Lib"}

\* the paths of the source id tables of an output
TablePaths(out) ==
    UNION { { out.builds[b].source_id_to_path[k][2] :
                k \in 1..Len(out.builds[b].source_id_to_path) } : b \in 1..Len(out.builds) }

\* nothing but a missing file id stands in the way of the call: every artifact
\* with a file id links and converts, and every source can be read
NothingElseFails(out, libraries, read) ==
    /\ \A k \in 1..Len(out.artifact_ids) :
          out.artifact_ids[k].id # None =>
             /\ out.artifact_ids[k].abi # None
             /\ (libraries # None => out.artifact_ids[k].linkable)
    /\ \A p \in TablePaths(out) : read[p] # None

\* C16: an artifact without a file id is skipped and is no error: a call that
\* nothing else stops succeeds, and a call that succeeds has appended, under
\* each name, the artifacts of the output that have a file id, with their
\* build id and file id and in their order, and nothing for the others
C16_ArtifactWithoutFileIdSkipped ==
    [][ IngestStep =>
          /\ NothingElseFails(last'.output, last'.libraries, last'.read)
                => last'.result = "Ok"
          /\ last'.result = "Ok" =>
                \A name \in ContractNames :
                    BuildAndFile(StoredUnder(sources', name))
                      = BuildAndFile(StoredUnder(IngestBefore, name))
                          \o WithFileId(last'.output, name) ]_vars

\* an output with Counter and the id-less IFace was ingested: Counter is
\* stored, IFace is not
C16_Witness ==
    /\ last.op = "insert"
    /\ last.result = "Ok"
    /\ last.output.artifact_ids = <<ArtCounter("b1"), ArtIFace>>
    /\ "Counter" \in DOMAIN sources.artifacts_by_name
    /\ "IFace" \notin DOMAIN sources.artifacts_by_name

\* the (build, source id, path) of the source id tables of an output
TableEntries(out) ==
    UNION { { [ build |-> out.builds[b], source_id |-> out.builds[b].source_id_to_path[k][1],
                path |-> out.builds[b].source_id_to_path[k][2] ] :
                k \in 1..Len(out.builds[b].source_id_to_path) } : b \in 1..Len(out.builds) }

\* the language tag of a build and the name of a path under the project root
LanguageTag(language) ==
    IF language = "Vyper" THEN <<"Vyper", "Vyper">> ELSE <<"Solc", language>>

RelativeToRoot(path) == IF path[1] = Root THEN <<path[2]>> ELSE path

\* C17: after a call that ingested an output with success, every (file id,
\* path) of every build's source id table has a record under (build id, file
\* id) holding the content read from the path, the language tag of the build
\* and the path relative to the root, with or without an artifact of that
\* source
C17_EverySourceOfEveryBuildStored ==
    (last.op \in {"insert", "from_project_output"} /\ last.result = "Ok") =>
        \A e \in TableEntries(last.output) :
            /\ e.build.build_id \in DOMAIN sources.sources_by_id
            /\ e.source_id \in DOMAIN sources.sources_by_id[e.build.build_id]
            /\ sources.sources_by_id[e.build.build_id][e.source_id]
                 = [ source |-> last.read[e.path][1],
                     language |-> LanguageTag(e.build.language),
                     name |-> RelativeToRoot(e.path) ]

\* the output with the artifacts Counter and Lib of build b2 and the tables
\* of b1 and b2 was ingested: the sources of b1, which has no artifact, and
\* the source outside the root are stored
C17_Witness ==
    /\ last.op = "insert"
    /\ last.result = "Ok"
    /\ last.output.builds = <<Build1, Build2>>
    /\ \A k \in 1..Len(last.output.artifact_ids) : last.output.artifact_ids[k].build_id = "b2"
    /\ sources.sources_by_id["b1"][1].name = <<"src/IFace.sol">>
    /\ sources.sources_by_id["b2"][1].name = ExtLib

\* the table entries of an output in the order of the builds and of the
\* source ids, as (build id, source id, path)
RECURSIVE TableOrder(_)
TableOrder(builds) ==
    IF builds = << >> THEN << >>
    ELSE [ k \in 1..Len(Head(builds).source_id_to_path) |->
             <<Head(builds).build_id, Head(builds).source_id_to_path[k][1],
               Head(builds).source_id_to_path[k][2]>> ]
           \o TableOrder(Tail(builds))

\* the record stored under (build id, source id), None when there is none
RecordAt(store, build_id, source_id) ==
    IF build_id \in DOMAIN store.sources_by_id
       /\ source_id \in DOMAIN store.sources_by_id[build_id]
    THEN Some(store.sources_by_id[build_id][source_id])
    ELSE None

\* every artifact with a file id links and converts
ArtifactsPass(out, libraries) ==
    \A k \in 1..Len(out.artifact_ids) :
        out.artifact_ids[k].id # None =>
           /\ out.artifact_ids[k].abi # None
           /\ (libraries # None => out.artifact_ids[k].linkable)

\* C18: a call that ingests an output with a source that cannot be read
\* fails; when the artifacts pass, it fails with the read error, and no
\* source that comes after the unreadable one in the tables is stored or
\* replaced; from_project_output hands out no ContractSources then
C18_UnreadableSourceAbortsIngest ==
    [][ IngestStep =>
          LET order == TableOrder(last'.output.builds)
              unreadable == { k \in 1..Len(order) : last'.read[order[k][3]] = None }
          IN unreadable # {} =>
               /\ last'.result = "Err"
               /\ ArtifactsPass(last'.output, last'.libraries) =>
                    /\ last'.err = Some(ErrRead)
                    /\ \A k \in 1..Len(order) :
                          (\E u \in unreadable : u <= k) =>
                             RecordAt(sources', order[k][1], order[k][2])
                               = RecordAt(sources, order[k][1], order[k][2])
               /\ last'.op = "from_project_output" => sources' = sources ]_vars

\* an insert stopped at the unreadable IFace source of build b1: the Counter
\* source before it is stored, the sources of b2 after it are not
C18_Witness ==
    /\ last.op = "insert"
    /\ last.err = Some(ErrRead)
    /\ last.output.builds = <<Build1, Build2>>
    /\ RecordAt(sources, "b1", 0) # None
    /\ RecordAt(sources, "b1", 1) = None
    /\ RecordAt(sources, "b2", 0) = None

\* one (artifact, source) pair for each artifact stored under the name whose
\* (build id, file id) has a source record, in the order of the artifacts
RECURSIVE PairsOf(_, _)
PairsOf(store, stored) ==
    IF stored = << >> THEN << >>
    ELSE LET record == RecordAt(store, Head(stored).build_id, Head(stored).file_id)
         IN (IF record = None THEN << >> ELSE << <<Head(stored), record[1]>> >>)
              \o PairsOf(store, Tail(stored))

\* the (artifact, source) pairs that the items of entries() hold for a name
EntriesFor(items, name) ==
    LET kept == SelectSeq(items, LAMBDA e : e[1] = name)
    IN [ k \in 1..Len(kept) |-> <<kept[k][2], kept[k][3]>> ]

\* C19: get_sources(name) leaves the ContractSources as it is, gives no
\* iterator for a name that is not stored, gives exactly one pair for each
\* artifact stored under the name that has a source record, and gives the
\* same items when it is called again; entries() leaves the ContractSources
\* as it is and gives, for every name, the pairs of get_sources(name)
C19_QueriesArePure ==
    [][ /\ last'.op = "get_sources" =>
             /\ sources' = sources
             /\ last'.result =
                  IF last'.name \in DOMAIN sources.artifacts_by_name
                  THEN Some(PairsOf(sources, sources.artifacts_by_name[last'.name]))
                  ELSE None
             /\ (last.op = "get_sources" /\ last.name = last'.name) =>
                   last'.result = last.result
        /\ last'.op = "entries" =>
             /\ sources' = sources
             /\ \A name \in QueryNames :
                   EntriesFor(last'.result, name) =
                     PairsOf(sources, StoredUnder(sources, name))
             /\ \A k \in 1..Len(last'.result) :
                   last'.result[k][1] \in DOMAIN sources.artifacts_by_name ]_vars

\* get_sources("Counter") has given one pair while two artifacts are stored
\* under Counter, one of them without a source record
C19_Witness ==
    /\ last.op = "get_sources"
    /\ last.name = "Counter"
    /\ last.result # None
    /\ Len(last.result[1]) = 1
    /\ Len(sources.artifacts_by_name["Counter"]) = 2

\* no artifact stored is changed or removed by the step
ArtifactsKept ==
    \A name \in DOMAIN sources.artifacts_by_name :
        /\ name \in DOMAIN sources'.artifacts_by_name
        /\ Len(sources.artifacts_by_name[name]) <= Len(sources'.artifacts_by_name[name])
        /\ \A i \in 1..Len(sources.artifacts_by_name[name]) :
              sources'.artifacts_by_name[name][i] = sources.artifacts_by_name[name][i]

\* no source record stored is changed or removed by the step
SourcesKept ==
    \A build_id \in DOMAIN sources.sources_by_id :
        \A source_id \in DOMAIN sources.sources_by_id[build_id] :
            RecordAt(sources', build_id, source_id) = RecordAt(sources, build_id, source_id)

\* C20: no insert changes or removes an artifact or a source record that an
\* earlier call stored in the same ContractSources, also when it ingests a
\* (build id, file id) that is stored already
C20_StoredRecordsNeverChange ==
    [][ last'.op = "insert" => ArtifactsKept /\ SourcesKept ]_vars

(***************************************************************************)
(* zkVm                                                                    *)
(***************************************************************************)
\* C21: a zkVm call succeeds and leaves the zkSync VM active iff its flag is
\* true, no other step changes the active VM, and a zkVm call changes no
\* contract created before it: only the creations and calls after it
\* resolve to the VM it selected
C21_LastFlagSelectsVm ==
    [][ /\ last'.op = "zkVm" =>
             /\ last'.ok
             /\ use_zk_vm' = last'.enable
             /\ deployed' = deployed
        /\ last'.op # "zkVm" => use_zk_vm' = use_zk_vm
        /\ last'.op = "call" =>
             /\ deployed' = deployed
             /\ last'.vm = (IF use_zk_vm THEN "zkVM" ELSE "EVM")
        /\ last'.op = "create" =>
             /\ deployed \subseteq deployed'
             /\ [ name |-> last'.name, vm |-> IF use_zk_vm THEN "zkVM" ELSE "EVM" ]
                  \in deployed' ]_vars

\* zkVm(false) has switched back to the EVM after a contract was created in
\* the zkSync VM, and that contract is as it was
C21_Witness ==
    /\ last.op = "zkVm"
    /\ ~ last.enable
    /\ ~ use_zk_vm
    /\ \E d \in deployed : d.vm = "zkVM"

(***************************************************************************)
(* Linking                                                                 *)
(***************************************************************************)
\* the placeholders of bytecode
PlaceholderKeys(code) == { code[i][2] : i \in { j \in 1..Len(code) : code[j][1] = "placeholder" } }

\* C22: linking bytecode without placeholders returns it as it is, linking
\* again with the library map of the link before returns what that link
\* returned, and a placeholder whose key has no address in the map is still
\* in place after the link, as is every item that is no placeholder
C22_LinkingIsIdempotent ==
    [][ last'.op = "link" =>
          /\ Len(last'.result) = Len(last'.bytecode)
          /\ PlaceholderKeys(last'.bytecode) = {} => last'.result = last'.bytecode
          /\ (last.op = "link" /\ last.libraries = last'.libraries) =>
                last'.result = last.result
          /\ \A i \in 1..Len(last'.bytecode) :
                (\/ last'.bytecode[i][1] # "placeholder"
                 \/ last'.bytecode[i][2] \notin DOMAIN last'.libraries)
                   => last'.result[i] = last'.bytecode[i]
          /\ \A i \in 1..Len(last'.bytecode) :
                (/\ last'.bytecode[i][1] = "placeholder"
                 /\ last'.bytecode[i][2] \in DOMAIN last'.libraries)
                   => last'.result[i] = <<"address", last'.libraries[last'.bytecode[i][2]]>> ]_vars

\* bytecode with the placeholders of L1 and L2 was linked with a map that
\* has L1 only and linked again with the same map: L1 is resolved, L2 is in
\* place, and the second link returned what it was given
C22_Witness ==
    /\ last.op = "link"
    /\ DOMAIN last.libraries = {TokL1}
    /\ last.bytecode = <<Address(last.libraries[TokL1]), Placeholder(TokL2)>>
    /\ last.result = last.bytecode

(***************************************************************************)
(* The table of a size report                                              *)
(***************************************************************************)
\* the contracts a report lists: no dev contract, and a size above zero
Listed(report) ==
    { n \in DOMAIN report.contracts :
        ~ report.contracts[n].is_dev_contract /\ report.contracts[n].size > 0 }

\* the decimal text of n >= 0 up to 999,999, a comma before the last three
\* digits
Thousands(n) ==
    IF n < 1000 THEN ToString(n)
    ELSE ToString(n \div 1000) \o ","
           \o (IF n % 1000 < 10 THEN "00" ELSE IF n % 1000 < 100 THEN "0" ELSE "")
           \o ToString(n % 1000)

\* the text of a margin
MarginText(m) == IF m < 0 THEN "-" \o Thousands(0 - m) ELSE Thousands(m)

\* C23: the table has one row for each listed contract and no other, the
\* margin of a row is the limit of the report's target less the size of its
\* contract (a Counter of 800 bytes in a zkSync report has the margin
\* 450,199), and a report whose listed contracts all have a margin of zero
\* or more does not exceed the size limit
C23_MarginIsThresholdLessSize ==
    /\ last.op = "fmt" =>
         /\ { last.result[i].name : i \in 1..Len(last.result) } = Listed(size_report)
         /\ Len(last.result) = Cardinality(Listed(size_report))
         /\ \A i \in 1..Len(last.result) :
              LET row == last.result[i]
              IN row.margin = MarginText(Threshold(size_report)
                                           - size_report.contracts[row.name].size)
         /\ \A i \in 1..Len(last.result) :
              (/\ size_report.zksync
               /\ last.result[i].name = "Counter"
               /\ size_report.contracts["Counter"].size = 800)
                 => /\ last.result[i].size = "800"
                    /\ last.result[i].margin = "450,199"
    /\ last.op = "exceeds_size_limit" =>
         ((\A n \in Listed(size_report) :
              Threshold(size_report) - size_report.contracts[n].size >= 0)
            => last.result = FALSE)

\* the table of a zkSync report with a Counter of 800 bytes and a test
\* contract above the limit was written: one row, Counter's
C23_Witness ==
    /\ last.op = "fmt"
    /\ size_report.zksync
    /\ DOMAIN size_report.contracts = {"Counter", "CounterTest"}
    /\ size_report.contracts["Counter"] = [ size |-> 800, is_dev_contract |-> FALSE ]
    /\ size_report.contracts["CounterTest"].size > ZKSYNC_CONTRACT_SIZE_LIMIT
    /\ Len(last.result) = 1
    /\ last.result[1].margin = "450,199"

(***************************************************************************)
(* Failed breakpoint operations                                            *)
(***************************************************************************)
\* the error a label is refused with, whatever is asked for with it
RefusedWith(s) ==
    IF Len(s) # 1 THEN Some("breakpoints must be exactly one character")
    ELSE IF s[1] \notin {"a", "U+00E9"}
    THEN Some("only alphabetic characters are accepted as breakpoints")
    ELSE None

\* C24: a breakpoint call that fails leaves the breakpoint map as it was,
\* and a label that is not one alphabetic character fails a clear request
\* with the error it fails a set request with; a label that is one
\* alphabetic character fails neither
C24_ValidationBeforeSetOrClear ==
    [][ last'.op = "breakpoint" =>
          /\ ~ last'.ok => breakpoints' = breakpoints
          /\ RefusedWith(last'.s) # None =>
                /\ ~ last'.ok
                /\ Some(last'.err) = RefusedWith(last'.s)
          /\ RefusedWith(last'.s) = None => last'.ok ]_vars

\* with a breakpoint set, a clear request with the label "1" failed as not
\* alphabetic
C24_Witness ==
    /\ last.op = "breakpoint"
    /\ ~ last.add
    /\ last.s = <<"1">>
    /\ ~ last.ok
    /\ last.err = ErrAlpha
    /\ DOMAIN breakpoints # {}

(***************************************************************************)
(* Quiet builds                                                            *)
(***************************************************************************)
\* the last call was a quiet zksync_compile whose compilation succeeded
QuietBuild ==
    /\ last.op = "zksync_compile"
    /\ last.self.quiet
    /\ output.ok
    /\ ~ (last.self.bail /\ output.has_compiler_errors)
    /\ (last.self.has_input_files \/ last.self.files # << >>)

\* C25: a quiet zksync_compile whose compilation succeeded returns Ok, prints
\* no size report and leaves the cache as it was, whatever libraries the
\* artifacts in scope report as missing; no quiet call ends in the
\* missing-libraries error or in a panic of the detection
C25_QuietSkipsDetection ==
    [][ (last'.op = "zksync_compile" /\ last'.self.quiet) =>
          /\ missing_libraries_cache' = missing_libraries_cache
          /\ last'.result # "panic"
          /\ ~ (last'.result = "Err" /\ last'.detail[1] = "Missing libraries detected")
          /\ QuietBuild' => /\ last'.result = "Ok"
                            /\ ~ last'.printed_sizes
                            /\ size_report' = size_report ]_vars

\* a quiet build of an output whose Counter reports a missing library
\* returned Ok, and the cache holds the records of an earlier round only
C25_Witness ==
    /\ QuietBuild
    /\ last.result = "Ok"
    /\ InScopeTokens # {}
    /\ missing_libraries_cache # << >>
    /\ \E t \in InScopeTokens : t \notin CacheTokens

SizesWerePrinted ==
    /\ DetectionRan
    /\ InScopeTokens = {}
    /\ last.printed_sizes
    /\ DOMAIN size_report.contracts # {}

(***************************************************************************)
(* What each cheatcode leaves alone                                        *)
(***************************************************************************)
\* C27: a zkRegisterContract call, whether it registers or finds a
\* duplicate, leaves the breakpoints and the active VM as they were; a
\* breakpoint call, set or clear, leaves the registry and the active VM as
\* they were; a zkVm call leaves the registry and the breakpoints as they
\* were
C27_EachOperationKeepsTheRest ==
    [][ /\ last'.op = "zkRegisterContract" =>
              /\ breakpoints' = breakpoints
              /\ use_zk_vm' = use_zk_vm
        /\ last'.op = "breakpoint" =>
              /\ dual_compiled_contracts' = dual_compiled_contracts
              /\ use_zk_vm' = use_zk_vm
        /\ last'.op = "zkVm" =>
              /\ dual_compiled_contracts' = dual_compiled_contracts
              /\ breakpoints' = breakpoints ]_vars

\* with a contract registered and a breakpoint set, the VM was switched to
\* the zkSync VM
C27_Witness ==
    /\ last.op = "zkVm"
    /\ use_zk_vm
    /\ dual_compiled_contracts # << >>
    /\ DOMAIN breakpoints # {}

====
